---------------------------- MODULE Spec2Model ----------------------------
(***************************************************************************)
(* Model of the smart-ats matching engine (src/matching_engine.py) and of  *)
(* its resume parser (src/resume_parser.py).                               *)
(*                                                                         *)
(* Both are stateless objects: every method is a function of its           *)
(* arguments, of the fixed tables set in __init__ and, for the read of a   *)
(* file, of what the file system answers.  The state of the model is the   *)
(* method call in progress: its name, the arguments it was given and the   *)
(* value it returns; between two calls the objects are idle.               *)
(*                                                                         *)
(* Texts are TLA+ strings; lower(), strip(), the `in` substring test,      *)
(* str.count and re.findall are computed character by character.           *)
(* Python floats are modelled as exact rationals <<numerator,denominator>> *)
(* with a positive denominator; round(x * 100, 2) is an integer number of  *)
(* hundredths of a percent.                                                *)
(***************************************************************************)
EXTENDS Integers, Sequences, FiniteSets, TLC

VARIABLES op, args, ret

vars == <<op, args, ret>>

-----------------------------------------------------------------------------
(* Bounds of the explored inputs *)

MaxYears == 7
MaxDegrees == 2
MaxRequired == 2
MaxSkills == 2
MaxWords == 2
MaxDynamic == 2
MaxPool == 3
MaxTokens == 3

-----------------------------------------------------------------------------
(* Python string primitives *)

Upper == "ABCDEFGHIJKLMNOPQRSTUVWXYZ"
LowerAlpha == "abcdefghijklmnopqrstuvwxyz"
Digits == "0123456789"

Chr(s, i) == SubSeq(s, i, i)

CharsOf(alphabet) == {Chr(alphabet, i) : i \in 1..Len(alphabet)}

UpperChars == CharsOf(Upper)
LowerChars == CharsOf(LowerAlpha)
DigitChars == CharsOf(Digits)

\* the lower-case letter of each upper-case letter
LowerMap ==
    [c \in UpperChars |->
        Chr(LowerAlpha, CHOOSE i \in 1..Len(Upper) : Chr(Upper, i) = c)]

LowerChar(c) == IF c \in UpperChars THEN LowerMap[c] ELSE c

\* str.lower(), character by character (the text is halved at each step)
RECURSIVE lower(_)
lower(s) ==
    IF Len(s) = 0 THEN ""
    ELSE IF Len(s) = 1 THEN LowerChar(s)
    ELSE lower(SubSeq(s, 1, Len(s) \div 2)) \o lower(SubSeq(s, Len(s) \div 2 + 1, Len(s)))

IsSpace(c) == c \in {" ", "\t", "\n"}

RECURSIVE lstrip(_)
lstrip(s) ==
    IF Len(s) > 0 /\ IsSpace(Chr(s, 1)) THEN lstrip(SubSeq(s, 2, Len(s))) ELSE s

RECURSIVE rstrip(_)
rstrip(s) ==
    IF Len(s) > 0 /\ IsSpace(Chr(s, Len(s)))
    THEN rstrip(SubSeq(s, 1, Len(s) - 1)) ELSE s

strip(s) == rstrip(lstrip(s))

\* Python's `a in b` on two strings
IsSubstring(a, b) ==
    \E i \in 1..(Len(b) - Len(a) + 1) : SubSeq(b, i, i + Len(a) - 1) = a

\* Python's `x in list`
InList(x, list) == \E i \in 1..Len(list) : list[i] = x

\* str.count: the number of non-overlapping occurrences, scanning from the left
RECURSIVE CountFrom(_, _, _)
CountFrom(text, sub, i) ==
    IF i + Len(sub) - 1 > Len(text) THEN 0
    ELSE IF SubSeq(text, i, i + Len(sub) - 1) = sub
         THEN 1 + CountFrom(text, sub, i + Len(sub))
         ELSE CountFrom(text, sub, i + 1)

count(text, sub) == IF Len(sub) = 0 THEN Len(text) + 1 ELSE CountFrom(text, sub, 1)

IsAlphaChar(c) == c \in UpperChars \/ c \in LowerChars

\* a character of the regex class \w
IsWordChar(c) == IsAlphaChar(c) \/ c \in DigitChars \/ c = "_"

\* the regex assertion \b before the character at position p (1..Len+1)
Boundary(text, p) ==
    LET before == p > 1 /\ IsWordChar(Chr(text, p - 1))
        after == p <= Len(text) /\ IsWordChar(Chr(text, p))
    IN  before # after

isalpha(s) == Len(s) > 0 /\ \A i \in 1..Len(s) : IsAlphaChar(Chr(s, i))

isdigit(s) == Len(s) > 0 /\ \A i \in 1..Len(s) : Chr(s, i) \in DigitChars

\* the maximal runs of \w characters of text, left to right
WordRuns(text) ==
    LET IsWordAt(i) == i >= 1 /\ i <= Len(text) /\ IsWordChar(Chr(text, i))
        starts == {i \in 1..Len(text) : IsWordAt(i) /\ ~IsWordAt(i - 1)}
        ends == {i \in 1..Len(text) : IsWordAt(i) /\ ~IsWordAt(i + 1)}
        Nth(S, k) == CHOOSE x \in S : Cardinality({y \in S : y < x}) = k - 1
    IN  [k \in 1..Cardinality(starts) |-> SubSeq(text, Nth(starts, k), Nth(ends, k))]

\* re.findall(r'\b[a-zA-Z]{3,}\b', text): a match starts and ends on a word
\* boundary, so it is a whole run of \w characters, all of them letters
FindAlphaWords(text) ==
    SelectSeq(WordRuns(text), LAMBDA w : isalpha(w) /\ Len(w) >= 3)

-----------------------------------------------------------------------------
(* Float arithmetic, as exact rationals *)

Rat(n, d) == <<n, d>>
RInt(n) == <<n, 1>>
RLe(a, b) == a[1] * b[2] <= b[1] * a[2]
RLt(a, b) == a[1] * b[2] < b[1] * a[2]
REq(a, b) == a[1] * b[2] = b[1] * a[2]

RECURSIVE Gcd(_, _)
Gcd(m, n) == IF n = 0 THEN m ELSE Gcd(n, m % n)

\* the same number in lowest terms (numerators are never negative here)
Norm(a) == LET g == Gcd(a[1], a[2]) IN <<a[1] \div g, a[2] \div g>>

RAdd(a, b) == Norm(<<a[1] * b[2] + b[1] * a[2], a[2] * b[2]>>)
RMul(a, b) == Norm(<<a[1] * b[1], a[2] * b[2]>>)
RMin(a, b) == IF RLe(a, b) THEN a ELSE b
RMax(a, b) == IF RLe(b, a) THEN a ELSE b

\* round(x * 100, 2), in hundredths: the nearest integer to x * 10000, a
\* half going to the even neighbour
RoundPct(x) ==
    LET n == x[1] * 10000
        q == n \div x[2]
        r == n % x[2]
    IN  IF 2 * r < x[2] THEN q
        ELSE IF 2 * r > x[2] THEN q + 1
        ELSE IF q % 2 = 0 THEN q ELSE q + 1

-----------------------------------------------------------------------------
(* MatchingEngine.__init__: the fixed tables *)

\* variant: the four-dimension weights, nothing for the dynamic keywords
weights_four ==
    [skills_match |-> Rat(40, 100),
     experience_match |-> Rat(25, 100),
     education_match |-> Rat(15, 100),
     keyword_match |-> Rat(20, 100),
     dynamic_keyword_match |-> Rat(0, 100)]

\* variant: the skills dimension carries no weight
weights_no_skills ==
    [skills_match |-> Rat(0, 100),
     experience_match |-> Rat(55, 100),
     education_match |-> Rat(15, 100),
     keyword_match |-> Rat(20, 100),
     dynamic_keyword_match |-> Rat(10, 100)]

weights ==
    [skills_match |-> Rat(35, 100),
     experience_match |-> Rat(20, 100),
     education_match |-> Rat(15, 100),
     keyword_match |-> Rat(20, 100),
     dynamic_keyword_match |-> Rat(10, 100)]

\* in the insertion order of the dict, the order its items are iterated in
education_hierarchy ==
    << <<"high school", 1>>, <<"diploma", 2>>, <<"certificate", 2>>,
       <<"associate", 3>>, <<"bachelor", 4>>, <<"master", 5>>, <<"mba", 6>>,
       <<"phd", 7>>, <<"doctorate", 7>> >>

-----------------------------------------------------------------------------
(* _calculate_experience_match *)

\* variant: the ratio is returned for every candidate, without the cap at 1.0
calculate_experience_match_uncapped(required_years, candidate_years) ==
    IF required_years = 0 THEN [score |-> RInt(1)]
    ELSE [score |-> RMax(Rat(1, 10), Rat(candidate_years, required_years))]

\* variant: the overqualification penalty starts at twice the required years
calculate_experience_match_strict(required_years, candidate_years) ==
    IF required_years = 0 THEN [score |-> RInt(1)]
    ELSE IF candidate_years >= required_years
         THEN IF candidate_years < required_years * 2
              THEN [score |-> RInt(1)]
              ELSE [score |-> Rat(9, 10)]
         ELSE [score |-> RMax(Rat(1, 10), Rat(candidate_years, required_years))]

calculate_experience_match(required_years, candidate_years) ==
    IF required_years = 0 THEN [score |-> RInt(1)]
    ELSE IF candidate_years >= required_years
         THEN IF candidate_years <= required_years * 2
              THEN [score |-> RInt(1)]
              ELSE [score |-> Rat(9, 10)]
         ELSE [score |-> RMax(Rat(1, 10), Rat(candidate_years, required_years))]

-----------------------------------------------------------------------------
(* _get_education_level and _calculate_education_match *)

RECURSIVE EducationLevelFrom(_, _)
EducationLevelFrom(education_lower, i) ==
    IF i > Len(education_hierarchy) THEN 0
    ELSE IF IsSubstring(education_hierarchy[i][1], education_lower)
         THEN education_hierarchy[i][2]
         ELSE EducationLevelFrom(education_lower, i + 1)

get_education_level(education_text) == EducationLevelFrom(lower(education_text), 1)

\* variant: the first element instead of the largest
FirstDefault(list, default) == IF Len(list) = 0 THEN default ELSE list[1]

\* max(list, default=0)
MaxDefault(list, default) ==
    IF Len(list) = 0 THEN default
    ELSE CHOOSE m \in {list[i] : i \in 1..Len(list)} :
             \A i \in 1..Len(list) : list[i] <= m

\* variant: no partial credit for a candidate without a recognized degree
calculate_education_match_no_credit(required_education, candidate_degrees) ==
    IF Len(required_education) = 0 \/ Len(strip(required_education)) = 0
    THEN [score |-> RInt(1)]
    ELSE LET required_level == get_education_level(required_education)
             candidate_level ==
                 MaxDefault([i \in 1..Len(candidate_degrees) |->
                                get_education_level(candidate_degrees[i])], 0)
         IN  IF candidate_level >= required_level THEN [score |-> RInt(1)]
             ELSE [score |-> RMin(RInt(1), Rat(candidate_level, required_level))]

calculate_education_match(required_education, candidate_degrees) ==
    IF Len(required_education) = 0 \/ Len(strip(required_education)) = 0
    THEN [score |-> RInt(1)]
    ELSE LET required_level == get_education_level(required_education)
             candidate_level ==
                 MaxDefault([i \in 1..Len(candidate_degrees) |->
                                get_education_level(candidate_degrees[i])], 0)
         IN  IF candidate_level >= required_level THEN [score |-> RInt(1)]
             ELSE IF candidate_level = 0 THEN [score |-> Rat(3, 10)]
             ELSE [score |-> RMin(RInt(1), Rat(candidate_level, required_level))]

-----------------------------------------------------------------------------
(* _calculate_skills_match_enhanced *)

\* each entry: the main skill name and the list of its synonyms
skill_synonyms ==
    << <<"javascript", <<"js", "ecmascript", "node.js", "nodejs">> >>,
       <<"python", <<"py">> >>,
       <<"react", <<"reactjs", "react.js">> >>,
       <<"angular", <<"angularjs", "angular.js">> >>,
       <<"machine learning", <<"ml", "artificial intelligence", "ai">> >>,
       <<"amazon web services", <<"aws">> >>,
       <<"microsoft azure", <<"azure">> >>,
       <<"google cloud", <<"gcp", "google cloud platform">> >>,
       <<"docker", <<"containerization">> >>,
       <<"kubernetes", <<"k8s", "container orchestration">> >>,
       <<"sql", <<"mysql", "postgresql", "database">> >>,
       <<"css", <<"css3", "cascading style sheets">> >>,
       <<"html", <<"html5", "hypertext markup language">> >> >>

\* variant: only a required main name against a candidate synonym
SynonymMatchOneWay(required_lower, candidate_skill) ==
    \E g \in 1..Len(skill_synonyms) :
        /\ required_lower = skill_synonyms[g][1]
        /\ InList(candidate_skill, skill_synonyms[g][2])

\* the loop over skill_synonyms.items() for one candidate skill
SynonymMatch(required_lower, candidate_skill) ==
    \E g \in 1..Len(skill_synonyms) :
        LET main_skill == skill_synonyms[g][1]
            synonyms == skill_synonyms[g][2]
        IN  \/ required_lower = main_skill /\ InList(candidate_skill, synonyms)
            \/ InList(required_lower, synonyms) /\ candidate_skill = main_skill

\* the loop over candidate_skills_lower, left at the first match
RECURSIVE ScanCandidates(_, _, _)
ScanCandidates(required_lower, candidate_skills_lower, i) ==
    IF i > Len(candidate_skills_lower) THEN FALSE
    ELSE LET candidate_skill == candidate_skills_lower[i]
         IN  IF \/ IsSubstring(required_lower, candidate_skill)
                \/ IsSubstring(candidate_skill, required_lower)
             THEN TRUE
             ELSE IF SynonymMatch(required_lower, candidate_skill) THEN TRUE
             ELSE ScanCandidates(required_lower, candidate_skills_lower, i + 1)

\* the value of `matched` at the end of one iteration of the outer loop
SkillMatched(required_skill, candidate_skills_lower) ==
    LET required_lower == strip(lower(required_skill))
    IN  IF InList(required_lower, candidate_skills_lower) THEN TRUE
        ELSE ScanCandidates(required_lower, candidate_skills_lower, 1)

\* the outer loop: blank entries are skipped, every other entry is appended
\* to matched_skills or to missing_skills
\* variant: a blank entry is counted as missing
RECURSIVE SkillsLoopCountsBlank(_, _, _, _, _)
SkillsLoopCountsBlank(required_skills, candidate_skills_lower, i, matched_skills, missing_skills) ==
    IF i > Len(required_skills)
    THEN [matched_skills |-> matched_skills, missing_skills |-> missing_skills]
    ELSE IF SkillMatched(required_skills[i], candidate_skills_lower)
         THEN SkillsLoopCountsBlank(required_skills, candidate_skills_lower, i + 1,
                                    Append(matched_skills, required_skills[i]), missing_skills)
         ELSE SkillsLoopCountsBlank(required_skills, candidate_skills_lower, i + 1,
                                    matched_skills, Append(missing_skills, required_skills[i]))

RECURSIVE SkillsLoop(_, _, _, _, _)
SkillsLoop(required_skills, candidate_skills_lower, i, matched_skills, missing_skills) ==
    IF i > Len(required_skills)
    THEN [matched_skills |-> matched_skills, missing_skills |-> missing_skills]
    ELSE IF Len(strip(required_skills[i])) = 0
         THEN SkillsLoop(required_skills, candidate_skills_lower, i + 1,
                         matched_skills, missing_skills)
         ELSE IF SkillMatched(required_skills[i], candidate_skills_lower)
              THEN SkillsLoop(required_skills, candidate_skills_lower, i + 1,
                              Append(matched_skills, required_skills[i]), missing_skills)
              ELSE SkillsLoop(required_skills, candidate_skills_lower, i + 1,
                              matched_skills, Append(missing_skills, required_skills[i]))

\* variant: without the early return for an empty list
calculate_skills_match_enhanced_no_default(required_skills, candidate_skills) ==
    LET candidate_skills_lower ==
            [i \in 1..Len(candidate_skills) |-> strip(lower(candidate_skills[i]))]
        loop == SkillsLoop(required_skills, candidate_skills_lower, 1, <<>>, <<>>)
        total_required ==
            Len(SelectSeq(required_skills, LAMBDA sk : Len(strip(sk)) > 0))
    IN  [score |-> IF total_required > 0
                   THEN Rat(Len(loop.matched_skills), total_required)
                   ELSE RInt(0),
         matched_count |-> Len(loop.matched_skills),
         missing_count |-> Len(loop.missing_skills),
         total_required |-> total_required]

calculate_skills_match_enhanced(required_skills, candidate_skills) ==
    IF Len(required_skills) = 0
    THEN [score |-> RInt(1), matched_count |-> 0, missing_count |-> 0, total_required |-> 0]
    ELSE LET candidate_skills_lower ==
                 [i \in 1..Len(candidate_skills) |-> strip(lower(candidate_skills[i]))]
             loop == SkillsLoop(required_skills, candidate_skills_lower, 1, <<>>, <<>>)
             total_required ==
                 Len(SelectSeq(required_skills, LAMBDA sk : Len(strip(sk)) > 0))
             match_ratio ==
                 IF total_required > 0
                 THEN Rat(Len(loop.matched_skills), total_required)
                 ELSE RInt(0)
         IN  [score |-> match_ratio,
              matched_count |-> Len(loop.matched_skills),
              missing_count |-> Len(loop.missing_skills),
              total_required |-> total_required]

-----------------------------------------------------------------------------
(* _extract_meaningful_keywords and _calculate_keyword_match_enhanced *)

meaningful_stop_words ==
    {"the", "and", "for", "are", "but", "not", "you", "all", "can", "had", "her",
     "was", "one", "our", "out", "day", "get", "has", "him", "his", "how", "its",
     "may", "new", "now", "old", "see", "two", "who", "boy", "did", "she", "use",
     "way", "will", "have", "been", "that", "this", "with", "from", "they", "know",
     "want", "good", "much", "some", "time", "very", "when", "come", "here",
     "just", "like", "long", "make", "many", "over", "such", "take", "than", "them",
     "well", "were", "what", "your", "work", "years", "would", "there", "said",
     "each", "which", "their", "called", "other", "made", "more", "find", "where"}

extract_meaningful_keywords(text) ==
    IF Len(text) = 0 THEN <<>>
    ELSE SelectSeq(FindAlphaWords(lower(text)),
                   LAMBDA word : /\ word \notin meaningful_stop_words
                                 /\ Len(word) > 3
                                 /\ ~isdigit(word)
                                 /\ isalpha(word))

\* Counter(words)[word]
Freq(words, word) == Cardinality({i \in 1..Len(words) : words[i] = word})

\* the keys of Counter(words), in the order they were first counted
RECURSIVE CounterKeys(_, _, _)
CounterKeys(words, i, keys) ==
    IF i > Len(words) THEN keys
    ELSE CounterKeys(words, i + 1,
                     IF InList(words[i], keys) THEN keys ELSE Append(keys, words[i]))

Min(a, b) == IF a <= b THEN a ELSE b

\* the loop over job_freq.items(): keyword_score * job_count is
\* min(job_count, candidate_count), max_possible_score grows by job_count
RECURSIVE KeywordLoop(_, _, _, _, _, _)
KeywordLoop(keys, job_keywords, candidate_keywords, i, total_score, max_possible_score) ==
    IF i > Len(keys)
    THEN [total_score |-> total_score, max_possible_score |-> max_possible_score]
    ELSE LET job_count == Freq(job_keywords, keys[i])
             candidate_count == Freq(candidate_keywords, keys[i])
             keyword_score == Rat(Min(job_count, candidate_count), job_count)
         IN  KeywordLoop(keys, job_keywords, candidate_keywords, i + 1,
                         RAdd(total_score, RMul(keyword_score, RInt(job_count))),
                         max_possible_score + job_count)

calculate_keyword_match_enhanced(job_description, candidate_text) ==
    IF Len(job_description) = 0 THEN [score |-> RInt(1)]
    ELSE LET job_keywords == extract_meaningful_keywords(job_description)
             candidate_keywords == extract_meaningful_keywords(candidate_text)
         IN  IF Len(job_keywords) = 0 THEN [score |-> RInt(1)]
             ELSE LET loop == KeywordLoop(CounterKeys(job_keywords, 1, <<>>),
                                          job_keywords, candidate_keywords, 1, RInt(0), 0)
                      final_score ==
                          IF loop.max_possible_score > 0
                          THEN RMul(loop.total_score, Rat(1, loop.max_possible_score))
                          ELSE RInt(0)
                  IN  [score |-> RMin(RInt(1), final_score)]

-----------------------------------------------------------------------------
(* _calculate_dynamic_keyword_match *)

\* variant: the denominator grows only for the entries that matched
RECURSIVE DynamicLoopMatchedOnly(_, _, _, _, _, _)
DynamicLoopMatchedOnly(dynamic_keywords, candidate_text_lower, i, matches, total_score, max_possible_score) ==
    IF i > Len(dynamic_keywords)
    THEN [matches |-> matches, total_score |-> total_score,
          max_possible_score |-> max_possible_score]
    ELSE LET keyword_data == dynamic_keywords[i]
             keyword == lower(keyword_data.keyword)
         IN  IF IsSubstring(keyword, candidate_text_lower)
             THEN DynamicLoopMatchedOnly(dynamic_keywords, candidate_text_lower, i + 1,
                      Append(matches, keyword),
                      RAdd(total_score,
                           RMul(RMin(RInt(1), Rat(count(candidate_text_lower, keyword),
                                                  keyword_data.frequency)),
                                keyword_data.score)),
                      RAdd(max_possible_score, keyword_data.score))
             ELSE DynamicLoopMatchedOnly(dynamic_keywords, candidate_text_lower, i + 1,
                      matches, total_score, max_possible_score)

\* the loop over dynamic_keywords; an entry is a record with the fields
\* keyword, score (a rational), frequency and type
RECURSIVE DynamicLoop(_, _, _, _, _, _)
DynamicLoop(dynamic_keywords, candidate_text_lower, i, matches, total_score, max_possible_score) ==
    IF i > Len(dynamic_keywords)
    THEN [matches |-> matches, total_score |-> total_score,
          max_possible_score |-> max_possible_score]
    ELSE LET keyword_data == dynamic_keywords[i]
             keyword == lower(keyword_data.keyword)
             importance_score == keyword_data.score
         IN  IF IsSubstring(keyword, candidate_text_lower)
             THEN LET occurrences == count(candidate_text_lower, keyword)
                      match_score ==
                          RMul(RMin(RInt(1), Rat(occurrences, keyword_data.frequency)),
                               importance_score)
                  IN  DynamicLoop(dynamic_keywords, candidate_text_lower, i + 1,
                                  Append(matches, keyword),
                                  RAdd(total_score, match_score),
                                  RAdd(max_possible_score, importance_score))
             ELSE DynamicLoop(dynamic_keywords, candidate_text_lower, i + 1,
                              matches, total_score,
                              RAdd(max_possible_score, importance_score))

\* a / b for rationals, b > 0
RDiv(a, b) == Norm(<<a[1] * b[2], a[2] * b[1]>>)

calculate_dynamic_keyword_match(dynamic_keywords, candidate_text) ==
    IF Len(dynamic_keywords) = 0 THEN [score |-> RInt(1), matched_count |-> 0]
    ELSE LET loop == DynamicLoop(dynamic_keywords, lower(candidate_text), 1,
                                 <<>>, RInt(0), RInt(0))
             final_score ==
                 IF RLt(RInt(0), loop.max_possible_score)
                 THEN RDiv(loop.total_score, loop.max_possible_score)
                 ELSE RInt(0)
         IN  [score |-> RMin(RInt(1), final_score),
              matched_count |-> Len(loop.matches)]

-----------------------------------------------------------------------------
(* _calculate_enhanced_match_score *)

\* The four analyses of the explanation: each gives the lines it appends to
\* strengths and to gaps.

\* variant: the good-match line from 0.6 on
SkillsAnalysisFromSixTenths(skills_score) ==
    IF RLt(Rat(8, 10), skills_score.score)
    THEN [strengths |-> << "Excellent skills match (" \o ToString(skills_score.matched_count)
                           \o "/" \o ToString(skills_score.total_required)
                           \o " required skills)" >>,
          gaps |-> <<>>]
    ELSE IF RLe(Rat(6, 10), skills_score.score)
    THEN [strengths |-> << "Good skills match (" \o ToString(skills_score.matched_count)
                           \o "/" \o ToString(skills_score.total_required)
                           \o " required skills)" >>,
          gaps |-> <<>>]
    ELSE IF RLt(skills_score.score, Rat(4, 10))
    THEN [strengths |-> <<>>,
          gaps |-> << "Missing key skills (" \o ToString(skills_score.missing_count)
                      \o " out of " \o ToString(skills_score.total_required)
                      \o " required)" >>]
    ELSE [strengths |-> <<>>, gaps |-> <<>>]

SkillsAnalysis(skills_score) ==
    IF RLt(Rat(8, 10), skills_score.score)
    THEN [strengths |-> << "Excellent skills match (" \o ToString(skills_score.matched_count)
                           \o "/" \o ToString(skills_score.total_required)
                           \o " required skills)" >>,
          gaps |-> <<>>]
    ELSE IF RLt(Rat(6, 10), skills_score.score)
    THEN [strengths |-> << "Good skills match (" \o ToString(skills_score.matched_count)
                           \o "/" \o ToString(skills_score.total_required)
                           \o " required skills)" >>,
          gaps |-> <<>>]
    ELSE IF RLt(skills_score.score, Rat(4, 10))
    THEN [strengths |-> <<>>,
          gaps |-> << "Missing key skills (" \o ToString(skills_score.missing_count)
                      \o " out of " \o ToString(skills_score.total_required)
                      \o " required)" >>]
    ELSE [strengths |-> <<>>, gaps |-> <<>>]

\* variant: the gap line from 0.7 down
ExperienceAnalysisWideGap(experience_score, required_years, candidate_years) ==
    IF RLt(Rat(9, 10), experience_score.score)
    THEN [strengths |-> << "Perfect experience level match" >>, gaps |-> <<>>]
    ELSE IF RLt(Rat(7, 10), experience_score.score)
    THEN [strengths |-> << "Good experience level" >>, gaps |-> <<>>]
    ELSE IF required_years - candidate_years > 0
         THEN [strengths |-> <<>>,
               gaps |-> << "May need " \o ToString(required_years - candidate_years)
                           \o " more years of experience" >>]
         ELSE [strengths |-> <<>>, gaps |-> <<>>]

ExperienceAnalysis(experience_score, required_years, candidate_years) ==
    IF RLt(Rat(9, 10), experience_score.score)
    THEN [strengths |-> << "Perfect experience level match" >>, gaps |-> <<>>]
    ELSE IF RLt(Rat(7, 10), experience_score.score)
    THEN [strengths |-> << "Good experience level" >>, gaps |-> <<>>]
    ELSE IF RLt(experience_score.score, Rat(5, 10))
    THEN LET exp_gap == required_years - candidate_years
         IN  IF exp_gap > 0
             THEN [strengths |-> <<>>,
                   gaps |-> << "May need " \o ToString(exp_gap)
                               \o " more years of experience" >>]
             ELSE [strengths |-> <<>>, gaps |-> <<>>]
    ELSE [strengths |-> <<>>, gaps |-> <<>>]

EducationAnalysis(education_score, education_level) ==
    IF RLt(Rat(8, 10), education_score.score)
    THEN [strengths |-> << "Strong educational background" >>, gaps |-> <<>>]
    ELSE IF RLt(education_score.score, Rat(3, 10)) /\ Len(education_level) > 0
    THEN [strengths |-> <<>>, gaps |-> << "Education level may not meet requirements" >>]
    ELSE [strengths |-> <<>>, gaps |-> <<>>]

\* variant: the gap line next to the strength line
DynamicKeywordAnalysisBoth(dynamic_keyword_score) ==
    IF RLt(Rat(7, 10), dynamic_keyword_score.score)
    THEN [strengths |-> << "Strong keyword alignment ("
                           \o ToString(dynamic_keyword_score.matched_count)
                           \o " key terms matched)" >>,
          gaps |-> << "Limited alignment with job-specific requirements" >>]
    ELSE IF RLt(dynamic_keyword_score.score, Rat(3, 10))
    THEN [strengths |-> <<>>, gaps |-> << "Limited alignment with job-specific requirements" >>]
    ELSE [strengths |-> <<>>, gaps |-> <<>>]

DynamicKeywordAnalysis(dynamic_keyword_score) ==
    IF RLt(Rat(7, 10), dynamic_keyword_score.score)
    THEN [strengths |-> << "Strong keyword alignment ("
                           \o ToString(dynamic_keyword_score.matched_count)
                           \o " key terms matched)" >>,
          gaps |-> <<>>]
    ELSE IF RLt(dynamic_keyword_score.score, Rat(3, 10))
    THEN [strengths |-> <<>>, gaps |-> << "Limited alignment with job-specific requirements" >>]
    ELSE [strengths |-> <<>>, gaps |-> <<>>]

\* A job is a record with every key the method reads (a key missing from the
\* dict reads as the default given to .get, which is the empty value here).
calculate_enhanced_match_score(job_data, candidate_data) ==
    LET skills_score ==
            calculate_skills_match_enhanced(job_data.required_skills,
                                            candidate_data.skills.all_skills)
        experience_score ==
            calculate_experience_match(job_data.experience_years,
                                       candidate_data.experience.estimated_years)
        education_score ==
            calculate_education_match(job_data.education_level,
                                      candidate_data.education.degrees)
        keyword_score ==
            calculate_keyword_match_enhanced(job_data.description,
                                             candidate_data.raw_text)
        dynamic_keyword_score ==
            calculate_dynamic_keyword_match(job_data.dynamic_keywords,
                                            candidate_data.raw_text)
        total_score ==
            RAdd(RAdd(RAdd(RAdd(
                RMul(skills_score.score, weights.skills_match),
                RMul(experience_score.score, weights.experience_match)),
                RMul(education_score.score, weights.education_match)),
                RMul(keyword_score.score, weights.keyword_match)),
                RMul(dynamic_keyword_score.score, weights.dynamic_keyword_match))
        skills_lines == SkillsAnalysis(skills_score)
        experience_lines ==
            ExperienceAnalysis(experience_score, job_data.experience_years,
                               candidate_data.experience.estimated_years)
        education_lines == EducationAnalysis(education_score, job_data.education_level)
        dynamic_lines == DynamicKeywordAnalysis(dynamic_keyword_score)
    IN  [total_score |-> RoundPct(total_score),
         breakdown |->
             [skills |-> RoundPct(skills_score.score),
              experience |-> RoundPct(experience_score.score),
              education |-> RoundPct(education_score.score),
              keywords |-> RoundPct(keyword_score.score),
              dynamic_keywords |-> RoundPct(dynamic_keyword_score.score)],
         strengths |-> skills_lines.strengths \o experience_lines.strengths
                       \o education_lines.strengths \o dynamic_lines.strengths,
         gaps |-> skills_lines.gaps \o experience_lines.gaps
                  \o education_lines.gaps \o dynamic_lines.gaps]

-----------------------------------------------------------------------------
(* match_candidates_enhanced and match_candidates *)

\* variant: an element goes before the elements already placed with its key
InsertByScoreUnstable(sorted, m) ==
    LET k == Cardinality({j \in 1..Len(sorted) : sorted[j].match_score > m.match_score})
    IN  SubSeq(sorted, 1, k) \o <<m>> \o SubSeq(sorted, k + 1, Len(sorted))

\* list.sort(key=match_score, reverse=True) is stable: an element goes after
\* every element already placed whose key is greater than or equal to its own
InsertByScore(sorted, m) ==
    LET k == Cardinality({j \in 1..Len(sorted) : sorted[j].match_score >= m.match_score})
    IN  SubSeq(sorted, 1, k) \o <<m>> \o SubSeq(sorted, k + 1, Len(sorted))

RECURSIVE SortByScoreFrom(_, _, _)
SortByScoreFrom(list, i, sorted) ==
    IF i > Len(list) THEN sorted
    ELSE SortByScoreFrom(list, i + 1, InsertByScore(sorted, list[i]))

sort_by_match_score_reverse(list) == SortByScoreFrom(list, 1, <<>>)

match_candidates_enhanced(job_data, candidates) ==
    LET matches ==
            [i \in 1..Len(candidates) |->
                LET match_score ==
                        calculate_enhanced_match_score(job_data, candidates[i].parsed_data)
                IN  [candidate |-> candidates[i],
                     match_score |-> match_score.total_score,
                     match_breakdown |-> match_score.breakdown,
                     strengths |-> match_score.strengths,
                     gaps |-> match_score.gaps]]
    IN  sort_by_match_score_reverse(matches)

match_candidates(job_data, candidates) == match_candidates_enhanced(job_data, candidates)

-----------------------------------------------------------------------------
(* extract_job_keywords *)

job_stop_words ==
    meaningful_stop_words
        \cup {"should", "must", "able", "experience", "candidate", "position", "role", "job"}

technical_suffixes ==
    <<"js", "sql", "api", "sdk", "ide", "ui", "ux", "css", "html", "xml", "json">>

popular_techs ==
    <<"python", "java", "javascript", "react", "angular", "node", "docker", "kubernetes",
      "aws", "azure", "gcp">>

EndsWith(s, suffix) ==
    Len(s) >= Len(suffix) /\ SubSeq(s, Len(s) - Len(suffix) + 1, Len(s)) = suffix

\* technical_terms: the matches of the three patterns under re.IGNORECASE.
\* Each pattern lies between two \b and matches \w characters only, so a
\* match is a whole run of \w characters: made of two letters or more for
\* \b[A-Z]{2,}\b, ending in one of the suffixes for the second pattern,
\* equal to one of the technologies for the third.
\* variant: the acronym pattern is left out
technical_terms_no_acronyms(text) ==
    LET runs == WordRuns(text)
    IN  SelectSeq(runs, LAMBDA w : \E k \in 1..Len(technical_suffixes) :
                                      EndsWith(lower(w), technical_suffixes[k]))
        \o SelectSeq(runs, LAMBDA w : InList(lower(w), popular_techs))

technical_terms(text) ==
    LET runs == WordRuns(text)
    IN  SelectSeq(runs, LAMBDA w : isalpha(w) /\ Len(w) >= 2)
        \o SelectSeq(runs, LAMBDA w : \E k \in 1..Len(technical_suffixes) :
                                         EndsWith(lower(w), technical_suffixes[k]))
        \o SelectSeq(runs, LAMBDA w : InList(lower(w), popular_techs))

\* variant: a key goes before the keys of the same count
InsertByCountUnstable(sorted, key, words) ==
    LET before == SelectSeq(sorted, LAMBDA k : Freq(words, k) > Freq(words, key))
        after == SelectSeq(sorted, LAMBDA k : Freq(words, k) <= Freq(words, key))
    IN  before \o <<key>> \o after

\* a key takes its place after the keys of a greater or equal count: the
\* sort by decreasing count keeps the keys of equal count in the order
\* they were first counted
InsertByCount(sorted, key, words) ==
    LET before == SelectSeq(sorted, LAMBDA k : Freq(words, k) >= Freq(words, key))
        after == SelectSeq(sorted, LAMBDA k : Freq(words, k) < Freq(words, key))
    IN  before \o <<key>> \o after

RECURSIVE SortByCount(_, _, _, _)
SortByCount(keys, i, sorted, words) ==
    IF i > Len(keys) THEN sorted
    ELSE SortByCount(keys, i + 1, InsertByCount(sorted, keys[i], words), words)

\* the number of keywords kept
job_keywords_kept == 30

\* Counter(words).most_common(n): the keys by decreasing count, n at most
most_common(words, n) ==
    LET sorted == SortByCount(CounterKeys(words, 1, <<>>), 1, <<>>, words)
    IN  SubSeq(sorted, 1, Min(n, Len(sorted)))

extract_job_keywords(job_description) ==
    IF Len(job_description) = 0 THEN <<>>
    ELSE LET text == lower(job_description)
             words == FindAlphaWords(text)
             meaningful_words == SelectSeq(words, LAMBDA word : word \notin job_stop_words)
             terms == technical_terms(text)
             lowered_terms == [k \in 1..Len(terms) |-> lower(terms[k])]
             common == most_common(meaningful_words, job_keywords_kept)
             Score(word) ==
                 LET freq == Freq(meaningful_words, word)
                     boosted == IF InList(lower(word), lowered_terms)
                                THEN RMul(RInt(freq), RInt(2)) ELSE RInt(freq)
                 IN  IF Len(word) > 6 THEN RMul(boosted, Rat(12, 10)) ELSE boosted
         IN  [k \in 1..Len(common) |->
                 [keyword |-> common[k],
                  score |-> Score(common[k]),
                  type |-> "single",
                  frequency |-> Freq(meaningful_words, common[k])]]

-----------------------------------------------------------------------------
(* generate_suggestions *)

\* Python's None, among values that are otherwise strings
None == "None"

\* `not value` for a value that is None or a string
Falsy(value) == value = None \/ value = ""

SkillsCritical ==
    [category |-> "Skills", priority |-> "Critical",
     suggestion |-> "Add more technical skills to your resume. Include programming languages, frameworks, tools, and technologies you have experience with.",
     impact |-> "Significantly improves keyword matching and demonstrates technical competency"]

SkillsHigh ==
    [category |-> "Skills", priority |-> "High",
     suggestion |-> "Expand your skills section with more specialized technologies and emerging skills relevant to your field.",
     impact |-> "Helps you stand out for advanced positions and increases ATS matching"]

ExperienceHigh ==
    [category |-> "Experience", priority |-> "High",
     suggestion |-> "Strengthen your experience section by including internships, projects, volunteer work, or part-time roles.",
     impact |-> "Demonstrates practical application of skills and increases experience score"]

ExperienceMedium ==
    [category |-> "Experience", priority |-> "Medium",
     suggestion |-> "Use more specific job titles and include quantifiable achievements with metrics and numbers.",
     impact |-> "Makes your experience more concrete and measurable for recruiters"]

EducationMedium ==
    [category |-> "Education", priority |-> "Medium",
     suggestion |-> "Include your educational background, certifications, or relevant coursework.",
     impact |-> "Meets basic educational requirements and improves credibility"]

ContentCritical ==
    [category |-> "Content", priority |-> "Critical",
     suggestion |-> "Expand your resume with more detailed descriptions of your experience and achievements.",
     impact |-> "Provides more context for ATS matching and gives recruiters better insights"]

ContentLow ==
    [category |-> "Content", priority |-> "Low",
     suggestion |-> "Consider condensing your resume to focus on the most relevant and recent experiences.",
     impact |-> "Improves readability and focuses attention on key qualifications"]

\* variant: a missing email is only a High priority
ContactEmailHigh ==
    [category |-> "Contact Info", priority |-> "High",
     suggestion |-> "Add a professional email address to your resume.",
     impact |-> "Essential for recruiters to contact you - missing email is a major red flag"]

ContactEmail ==
    [category |-> "Contact Info", priority |-> "Critical",
     suggestion |-> "Add a professional email address to your resume.",
     impact |-> "Essential for recruiters to contact you - missing email is a major red flag"]

ContactPhone ==
    [category |-> "Contact Info", priority |-> "High",
     suggestion |-> "Include a phone number with proper formatting.",
     impact |-> "Provides additional contact method and shows professionalism"]

ContactLinkedin ==
    [category |-> "Contact Info", priority |-> "High",
     suggestion |-> "Include your LinkedIn profile URL.",
     impact |-> "Allows recruiters to see your professional network and endorsements"]

KeywordsMedium ==
    [category |-> "Keywords", priority |-> "Medium",
     suggestion |-> "Use more varied vocabulary and industry-specific terms throughout your resume.",
     impact |-> "Improves matching with diverse job descriptions and shows depth of knowledge"]

\* The result is [raised, suggestions]: raised is None when the method
\* returns its list, and the name of the exception when it raises (it then
\* returns nothing, and suggestions is empty).  unique_words / total_words
\* is a float division of two integers: it raises ZeroDivisionError for a
\* zero divisor, and for the small counts explored the quotient compares
\* with 0.3 as the exact fraction does.
generate_suggestions(candidate_data) ==
    LET skills_count == candidate_data.skills.skill_count
        exp_years == candidate_data.experience.estimated_years
        title_count == candidate_data.experience.title_count
        degree_count == candidate_data.education.degree_count
        word_count == candidate_data.summary_stats.word_count
        contact_info == candidate_data.contact_info
        keyword_data == candidate_data.keywords
        unique_words == keyword_data.unique_words
        total_words == keyword_data.total_words
        s1 == IF skills_count < 5 THEN <<SkillsCritical>>
              ELSE IF skills_count < 10 THEN <<SkillsHigh>>
              ELSE <<>>
        s2 == IF exp_years < 2 THEN Append(s1, ExperienceHigh) ELSE s1
        s3 == IF title_count < 2 THEN Append(s2, ExperienceMedium) ELSE s2
        s4 == IF degree_count = 0 THEN Append(s3, EducationMedium) ELSE s3
        s5 == IF word_count < 200 THEN Append(s4, ContentCritical)
              ELSE IF word_count > 800 THEN Append(s4, ContentLow)
              ELSE s4
        s6 == IF Falsy(contact_info.email) THEN Append(s5, ContactEmail) ELSE s5
        s7 == IF Falsy(contact_info.phone) THEN Append(s6, ContactPhone) ELSE s6
        s8 == IF Falsy(contact_info.linkedin) THEN Append(s7, ContactLinkedin) ELSE s7
    IN  IF total_words = 0
        THEN [raised |-> "ZeroDivisionError", suggestions |-> <<>>]
        ELSE [raised |-> None,
              suggestions |-> IF RLt(Rat(unique_words, total_words), Rat(3, 10))
                              THEN Append(s8, KeywordsMedium)
                              ELSE s8]

-----------------------------------------------------------------------------
(* ResumeParser (src/resume_parser.py): helpers shared by the extractors *)

\* set(list)
ToSet(list) == {list[i] : i \in 1..Len(list)}

\* list(set): the entries of the set, each once, in the order the hash
\* table happens to yield, which is any order
RECURSIVE ListOfSet(_)
ListOfSet(S) ==
    IF S = {} THEN {<<>>}
    ELSE UNION {{<<first>> \o rest : rest \in ListOfSet(S \ {first})} : first \in S}

DigitValue(c) == CHOOSE d \in 0..9 : Chr(Digits, d + 1) = c

\* int(s) for a string of decimal digits
RECURSIVE int(_)
int(s) ==
    IF Len(s) = 0 THEN 0
    ELSE int(SubSeq(s, 1, Len(s) - 1)) * 10 + DigitValue(Chr(s, Len(s)))

\* variant: every entry counts, repeated or not
CountAll(list) == Len(list)

\* len(set(list))
CountDistinct(list) == Cardinality(ToSet(list))

\* max(list) and min(list) of a non-empty list of integers
SeqMax(list) == CHOOSE m \in ToSet(list) : \A x \in ToSet(list) : x <= m
SeqMin(list) == CHOOSE m \in ToSet(list) : \A x \in ToSet(list) : m <= x

-----------------------------------------------------------------------------
(* ResumeParser.__init__ and _extract_keywords_basic *)

\* the stop words of a parser built without NLTK, the only case in which
\* _extract_keywords_basic is called
basic_stop_words ==
    {"the", "and", "for", "are", "but", "not", "you", "all", "can", "had", "her", "was", "one",
     "our", "out", "day", "get", "has", "him", "his", "how", "its", "may", "new", "now", "old",
     "see", "two", "who", "boy", "did", "she", "use", "way", "will", "have", "been", "that",
     "this", "with", "from", "they", "know", "want", "good", "much", "some", "time",
     "very", "when", "come", "here", "just", "like", "long", "make", "many", "over", "such",
     "take", "than", "them", "well", "were"}

extract_keywords_basic(text) ==
    LET words == FindAlphaWords(lower(text))
        important_words ==
            SelectSeq(words, LAMBDA word : word \notin basic_stop_words /\ Len(word) > 3)
        common == most_common(important_words, 20)
    IN  [top_keywords |-> [k \in 1..Len(common) |-> <<common[k], Freq(important_words, common[k])>>],
         total_words |-> Len(important_words),
         unique_words |-> Cardinality(ToSet(important_words))]

-----------------------------------------------------------------------------
(* ResumeParser.extract_text_from_file *)

\* filepath.split('.')[-1]: what follows the last ".", the whole path when
\* it has none
RECURSIVE LastPart(_)
LastPart(path) ==
    IF \E i \in 1..Len(path) : Chr(path, i) = "."
    THEN LastPart(SubSeq(path, (CHOOSE i \in 1..Len(path) : Chr(path, i) = ".") + 1, Len(path)))
    ELSE path

\* The file system and the optional libraries are the environment of the
\* method.  file gives the outcome of each way of reading the file: ok,
\* with what was read (value, pages, paragraphs), or not ok, with the text
\* of the exception (value for the two text reads, error for the others).  A result is [raised, text, reads]: raised is None
\* and text the text returned, or raised is the message of the exception
\* and text is None; reads lists the reads attempted, in order.

\* text += page.extract_text() + "\n" for each page
RECURSIVE JoinPages(_)
JoinPages(pages) ==
    IF Len(pages) = 0 THEN "" ELSE pages[1] \o "\n" \o JoinPages(Tail(pages))

\* "\n".join(paragraphs)
RECURSIVE JoinParagraphs(_)
JoinParagraphs(paragraphs) ==
    IF Len(paragraphs) = 0 THEN ""
    ELSE IF Len(paragraphs) = 1 THEN paragraphs[1]
    ELSE paragraphs[1] \o "\n" \o JoinParagraphs(Tail(paragraphs))

extract_from_pdf(file) ==
    IF file.pdf.ok
    THEN [raised |-> None, text |-> JoinPages(file.pdf.pages), reads |-> <<"PyPDF2">>]
    ELSE [raised |-> "PDF extraction error: " \o file.pdf.error, text |-> None,
          reads |-> <<"PyPDF2">>]

extract_from_docx(file) ==
    IF file.docx.ok
    THEN [raised |-> None, text |-> JoinParagraphs(file.docx.paragraphs), reads |-> <<"python-docx">>]
    ELSE [raised |-> "DOCX extraction error: " \o file.docx.error, text |-> None,
          reads |-> <<"python-docx">>]

\* variant: no second read after a failed utf-8 read
extract_from_txt_no_retry(file) ==
    IF file.utf8.ok
    THEN [raised |-> None, text |-> file.utf8.value, reads |-> <<"utf-8">>]
    ELSE [raised |-> "TXT extraction error: " \o file.utf8.value, text |-> None,
          reads |-> <<"utf-8">>]

extract_from_txt(file) ==
    IF file.utf8.ok
    THEN [raised |-> None, text |-> file.utf8.value, reads |-> <<"utf-8">>]
    ELSE IF file.latin1.ok
    THEN [raised |-> None, text |-> file.latin1.value, reads |-> <<"utf-8", "latin-1">>]
    ELSE [raised |-> "TXT extraction error: " \o file.utf8.value \o " and " \o file.latin1.value,
          text |-> None, reads |-> <<"utf-8", "latin-1">>]

\* raise Exception(message) inside the try block
Raise(message) == [raised |-> message, text |-> None, reads |-> <<>>]

extract_text_from_file(filepath, PDF_AVAILABLE, DOCX_AVAILABLE, file) ==
    LET file_extension == LastPart(lower(filepath))
        attempt ==
            IF file_extension = "pdf"
            THEN (IF PDF_AVAILABLE THEN extract_from_pdf(file)
                  ELSE Raise("PDF parsing not available. Please install PyPDF2: pip install PyPDF2"))
            ELSE IF file_extension \in {"doc", "docx"}
            THEN (IF DOCX_AVAILABLE THEN extract_from_docx(file)
                  ELSE Raise("DOCX parsing not available. Please install python-docx: pip install python-docx"))
            ELSE IF file_extension = "txt" THEN extract_from_txt(file)
            ELSE Raise("Unsupported file format: " \o file_extension)
    IN  IF attempt.raised # None
        THEN [attempt EXCEPT !.raised = "Error extracting text: " \o attempt.raised]
        ELSE attempt

-----------------------------------------------------------------------------
(* ResumeParser._extract_contact_info *)

\* the last position of the longest run of characters of a class that
\* starts at pos; pos - 1 when the character at pos is not of the class
RunEnd(text, pos, class) ==
    CHOOSE end \in (pos - 1)..Len(text) :
        /\ \A k \in pos..end : Chr(text, k) \in class
        /\ end = Len(text) \/ Chr(text, end + 1) \notin class

SetMax(S) == CHOOSE m \in S : \A x \in S : x <= m

AlnumChars == UpperChars \cup LowerChars \cup DigitChars

\* [A-Za-z0-9._%+-], [A-Za-z0-9.-] and [A-Z|a-z]
EmailLocalChars == AlnumChars \cup {".", "_", "%", "+", "-"}
EmailDomainChars == AlnumChars \cup {".", "-"}
EmailSuffixChars == UpperChars \cup LowerChars \cup {"|"}

\* The match of \b[A-Za-z0-9._%+-]+@[A-Za-z0-9.-]+\.[A-Z|a-z]{2,}\b at
\* position i: the position after the match, or 0.  The local part runs to
\* the "@"; the greedy domain gives characters back until a "." follows it,
\* so the "." is the last one of the domain run after which two or more
\* suffix characters end on a word boundary, and the greedy suffix is the
\* longest such.
MatchEmail(text, i) ==
    LET local_end == RunEnd(text, i, EmailLocalChars)
        domain_start == local_end + 2
        domain_end == RunEnd(text, domain_start, EmailDomainChars)
        SuffixEnds(dot) ==
            {t \in (dot + 2)..RunEnd(text, dot + 1, EmailSuffixChars) : Boundary(text, t + 1)}
        dots == {dot \in (domain_start + 1)..domain_end :
                    Chr(text, dot) = "." /\ SuffixEnds(dot) # {}}
    IN  IF /\ Boundary(text, i)
           /\ local_end >= i
           /\ local_end < Len(text)
           /\ Chr(text, local_end + 1) = "@"
           /\ dots # {}
        THEN SetMax(SuffixEnds(SetMax(dots))) + 1
        ELSE 0

\* emails[0] if emails else None, for emails = re.findall(email_pattern, text)
RECURSIVE FirstEmail(_, _)
FirstEmail(text, i) ==
    IF i > Len(text) THEN None
    ELSE LET end == MatchEmail(text, i)
         IN  IF end # 0 THEN SubSeq(text, i, end - 1) ELSE FirstEmail(text, i + 1)

IsDigitAt(text, pos) == pos <= Len(text) /\ Chr(text, pos) \in DigitChars

\* [-.\s]
IsSeparatorAt(text, pos) == pos <= Len(text) /\ (Chr(text, pos) \in {"-", "."} \/ IsSpace(Chr(text, pos)))

\* the position after an optional character: it is taken when it is there
\* (what follows it in the pattern cannot match it)
SkipIf(present, pos) == IF present THEN pos + 1 ELSE pos

\* \d{n} at pos: the position after it, or 0
Digits_n(text, pos, n) ==
    IF pos # 0 /\ \A k \in pos..(pos + n - 1) : IsDigitAt(text, k) THEN pos + n ELSE 0

\* \(?\d{3}\)?[-.\s]?\d{3}[-.\s]?\d{4} at pos: the position after it, or 0
MatchNumber(text, pos) ==
    LET p1 == SkipIf(pos <= Len(text) /\ Chr(text, pos) = "(", pos)
        p2 == Digits_n(text, p1, 3)
        p3 == SkipIf(p2 <= Len(text) /\ Chr(text, p2) = ")", p2)
        p4 == SkipIf(IsSeparatorAt(text, p3), p3)
        p5 == Digits_n(text, p4, 3)
        p6 == SkipIf(IsSeparatorAt(text, p5), p5)
    IN  IF p2 = 0 THEN 0
        ELSE IF p5 = 0 THEN 0
        ELSE Digits_n(text, p6, 4)

\* The match of the phone pattern at position i, as <<position after the
\* match, text of group 1>>, or <<0, "">>.  The optional group
\* (\+?\d{1,3}[-.\s]?) is tried first, with three digits, then two, then
\* one; when the number does not follow any of them the group is left out
\* and its text is "".
MatchPhone(text, i) ==
    LET plus_end == SkipIf(i <= Len(text) /\ Chr(text, i) = "+", i)
        WithGroup(n) ==
            LET digits_end == Digits_n(text, plus_end, n)
                group_end == SkipIf(IsSeparatorAt(text, digits_end), digits_end)
            IN  IF digits_end = 0 THEN <<0, "">>
                ELSE <<MatchNumber(text, group_end), SubSeq(text, i, group_end - 1)>>
    IN  IF WithGroup(3)[1] # 0 THEN WithGroup(3)
        ELSE IF WithGroup(2)[1] # 0 THEN WithGroup(2)
        ELSE IF WithGroup(1)[1] # 0 THEN WithGroup(1)
        ELSE <<MatchNumber(text, i), "">>

\* ''.join(phones[0]) if phones else None, for phones =
\* re.findall(phone_pattern, text): the pattern has one group, so phones
\* holds the text of the group of each match, and phones[0] is the group of
\* the leftmost match
RECURSIVE FirstPhone(_, _)
FirstPhone(text, i) ==
    IF i > Len(text) THEN None
    ELSE IF MatchPhone(text, i)[1] # 0 THEN MatchPhone(text, i)[2]
    ELSE FirstPhone(text, i + 1)

\* [\w-]
LinkedinChars == AlnumChars \cup {"_", "-"}

\* linkedin[0] if linkedin else None, for linkedin =
\* re.findall(r'linkedin\.com/in/[\w-]+', text)
RECURSIVE FirstLinkedin(_, _)
FirstLinkedin(text, i) ==
    LET prefix == "linkedin.com/in/"
        after == i + Len(prefix)
    IN  IF after > Len(text) THEN None
        ELSE IF SubSeq(text, i, after - 1) = prefix /\ Chr(text, after) \in LinkedinChars
             THEN SubSeq(text, i, RunEnd(text, after, LinkedinChars))
             ELSE FirstLinkedin(text, i + 1)

\* text.split('\n')[0]
RECURSIVE FirstLine(_)
FirstLine(text) ==
    IF Len(text) = 0 \/ Chr(text, 1) = "\n" THEN ""
    ELSE Chr(text, 1) \o FirstLine(SubSeq(text, 2, Len(text)))

\* the dictionary has the key 'name' only when the first line is not a
\* resume header
extract_contact_info(text) ==
    LET email == FirstEmail(text, 1)
        phone == FirstPhone(text, 1)
        linkedin == FirstLinkedin(lower(text), 1)
        potential_name == strip(FirstLine(strip(text)))
    IN  IF ~\E word \in {"resume", "cv", "curriculum"} : IsSubstring(word, lower(potential_name))
        THEN [email |-> email, phone |-> phone, linkedin |-> linkedin,
              name |-> SubSeq(potential_name, 1, Min(50, Len(potential_name)))]
        ELSE [email |-> email, phone |-> phone, linkedin |-> linkedin]

-----------------------------------------------------------------------------
(* ResumeParser.__init__ and _extract_skills *)

skills_database ==
    << <<"programming", <<"python", "java", "javascript", "c++", "c#", "ruby", "php",
                          "go", "rust", "kotlin">> >>,
       <<"web_development", <<"html", "css", "react", "angular", "vue", "nodejs",
                              "express", "django", "flask">> >>,
       <<"databases", <<"mysql", "postgresql", "mongodb", "redis", "elasticsearch",
                        "oracle", "sqlite">> >>,
       <<"cloud", <<"aws", "azure", "gcp", "docker", "kubernetes", "terraform",
                    "jenkins">> >>,
       <<"data_science", <<"pandas", "numpy", "scikit-learn", "tensorflow", "pytorch",
                           "tableau", "powerbi">> >>,
       <<"project_management", <<"agile", "scrum", "kanban", "jira", "confluence",
                                 "trello">> >>,
       <<"design", <<"photoshop", "illustrator", "figma", "sketch", "adobe", "ui/ux",
                     "graphic design">> >> >>

\* all_skills: the skills of the categories from the c-th on, flattened
RECURSIVE FlattenSkills(_)
FlattenSkills(c) ==
    IF c > Len(skills_database) THEN <<>>
    ELSE skills_database[c][2] \o FlattenSkills(c + 1)

all_skills == FlattenSkills(1)

\* the results the method can return: one for each order of list(set(...))
extract_skills(text) ==
    LET text_lower == lower(text)
        appended == SelectSeq(all_skills, LAMBDA skill : IsSubstring(lower(skill), text_lower))
        InCategory(c, skill) ==
            InList(lower(skill), [k \in 1..Len(skills_database[c][2]) |->
                                      lower(skills_database[c][2][k])])
        CategorySkills(found_skills, c) ==
            SelectSeq(found_skills, LAMBDA skill : InCategory(c, skill))
    IN  {[all_skills |-> found_skills,
          categorized |->
              [category \in {skills_database[c][1] : c \in
                                {c \in 1..Len(skills_database) :
                                     CategorySkills(found_skills, c) # <<>>}} |->
                  CategorySkills(found_skills,
                      CHOOSE c \in 1..Len(skills_database) : skills_database[c][1] = category)],
          skill_count |-> Len(found_skills)] :
            found_skills \in ListOfSet(ToSet(appended))}

-----------------------------------------------------------------------------
(* ResumeParser._extract_experience *)

\* re.findall(r'(19|20)\d{2}', text): the pattern has one group, so findall
\* returns the text of the group of each match, "19" or "20", and not the
\* four characters matched; the scan resumes after the end of a match
RECURSIVE FindYears(_, _)
FindYears(text, i) ==
    IF i + 3 > Len(text) THEN <<>>
    ELSE IF SubSeq(text, i, i + 1) \in {"19", "20"} /\ isdigit(SubSeq(text, i + 2, i + 3))
         THEN <<SubSeq(text, i, i + 1)>> \o FindYears(text, i + 4)
         ELSE FindYears(text, i + 1)

title_keywords ==
    <<"manager", "developer", "engineer", "analyst", "director", "specialist",
      "coordinator", "consultant", "lead", "senior", "junior", "intern">>

\* re.findall(r'\b\w*' + keyword + r'\w*\b', text, re.IGNORECASE): a match
\* is made of \w characters and lies between two word boundaries, so it is
\* a whole run of \w characters that contains the keyword in any letter case
FindTitles(text, keyword) ==
    SelectSeq(WordRuns(text), LAMBDA w : IsSubstring(keyword, lower(w)))

\* found_titles after the loop over title_keywords[k..]
RECURSIVE TitlesLoop(_, _)
TitlesLoop(text, k) ==
    IF k > Len(title_keywords) THEN <<>>
    ELSE FindTitles(text, title_keywords[k]) \o TitlesLoop(text, k + 1)

\* the results the method can return: one for each order of list(set(...))
extract_experience(text) ==
    LET years == FindYears(text, 1)
        years_int == [i \in 1..Len(years) |-> int(years[i])]
        experience_years ==
            IF Len(years) > 0
            THEN (IF Len(years_int) > 1 THEN SeqMax(years_int) - SeqMin(years_int) ELSE 0)
            ELSE 0
        found_titles == TitlesLoop(text, 1)
    IN  {[estimated_years |-> experience_years,
          years_mentioned |-> years,
          potential_titles |-> potential_titles,
          title_count |-> CountDistinct(found_titles)] :
            potential_titles \in ListOfSet(ToSet(found_titles))}

-----------------------------------------------------------------------------
(* ResumeParser._extract_education *)

degree_words ==
    <<"bachelor", "master", "phd", "doctorate", "associate", "diploma", "certificate">>

graduate_words == <<"undergraduate", "graduate", "postgraduate">>

\* re.findall(r'\b(w1|w2|...)\b', text, re.IGNORECASE) for words made of
\* letters: a match lies between two word boundaries, so it is a whole run
\* of \w characters that is one of the words in some letter case; the group
\* spans the match, so findall returns the run as written in the text
FindWholeWords(text, words) ==
    SelectSeq(WordRuns(text), LAMBDA w : InList(lower(w), words))

\* the alternatives of the abbreviation pattern
\* b\.?a\.?|b\.?s\.?|m\.?a\.?|m\.?s\.?|ph\.?d\.?|m\.?b\.?a\.?
\* each a sequence of <<letter, whether an optional dot follows>>
abbreviation_alternatives ==
    << << <<"b", TRUE>>, <<"a", TRUE>> >>,
       << <<"b", TRUE>>, <<"s", TRUE>> >>,
       << <<"m", TRUE>>, <<"a", TRUE>> >>,
       << <<"m", TRUE>>, <<"s", TRUE>> >>,
       << <<"p", FALSE>>, <<"h", TRUE>>, <<"d", TRUE>> >>,
       << <<"m", TRUE>>, <<"b", TRUE>>, <<"a", TRUE>> >> >>

\* The backtracking match of alternative[k..] at position pos, followed by
\* \b: the position after the match, or 0 when there is none.  \.? is
\* greedy: the dot is taken first, and given up if the rest then fails.
RECURSIVE MatchAbbreviation(_, _, _, _)
MatchAbbreviation(text, pos, alternative, k) ==
    IF k > Len(alternative) THEN (IF Boundary(text, pos) THEN pos ELSE 0)
    ELSE IF pos > Len(text) \/ LowerChar(Chr(text, pos)) # alternative[k][1] THEN 0
    ELSE LET with_dot ==
                 IF alternative[k][2] /\ pos + 1 <= Len(text) /\ Chr(text, pos + 1) = "."
                 THEN MatchAbbreviation(text, pos + 2, alternative, k + 1)
                 ELSE 0
         IN  IF with_dot # 0 THEN with_dot
             ELSE MatchAbbreviation(text, pos + 1, alternative, k + 1)

\* the first alternative, from the a-th on, that matches at position pos
RECURSIVE MatchAlternatives(_, _, _)
MatchAlternatives(text, pos, a) ==
    IF a > Len(abbreviation_alternatives) THEN 0
    ELSE LET end == MatchAbbreviation(text, pos, abbreviation_alternatives[a], 1)
         IN  IF end # 0 THEN end ELSE MatchAlternatives(text, pos, a + 1)

\* re.findall of the abbreviation pattern, re.IGNORECASE: the leftmost
\* matches, the scan resuming after the end of each
RECURSIVE FindAbbreviations(_, _)
FindAbbreviations(text, i) ==
    IF i > Len(text) THEN <<>>
    ELSE LET end == IF Boundary(text, i) THEN MatchAlternatives(text, i, 1) ELSE 0
         IN  IF end # 0
             THEN <<SubSeq(text, i, end - 1)>> \o FindAbbreviations(text, end)
             ELSE FindAbbreviations(text, i + 1)

institution_words == <<"university", "college", "institute", "school">>

\* found_degrees after the loop over the three degree patterns
found_degrees(text) ==
    FindWholeWords(text, degree_words)
        \o FindAbbreviations(text, 1)
        \o FindWholeWords(text, graduate_words)

\* the results the method can return: one for each order of list(set(...))
extract_education(text) ==
    LET found == found_degrees(text)
        education_institutions ==
            \E k \in 1..Len(institution_words) : IsSubstring(institution_words[k], lower(text))
    IN  {[degrees |-> degrees,
          education_mentioned |-> education_institutions,
          degree_count |-> CountDistinct(found)] :
            degrees \in ListOfSet(ToSet(found))}

-----------------------------------------------------------------------------
(* The inputs explored *)

SeqsUpTo(S, n) == UNION {[1..k -> S] : k \in 0..n}

RECURSIVE Join(_)
Join(words) ==
    IF Len(words) = 0 THEN ""
    ELSE IF Len(words) = 1 THEN words[1]
    ELSE words[1] \o " " \o Join(Tail(words))

YearValues == 0..MaxYears

RequiredEducationTexts == {"", "  ", "Bachelor", "PhD or Master", "MBA", "GED"}
DegreeTexts == {"bachelor", "Master", "mba", "b.s.", "diploma", "phd"}
DegreeLists == SeqsUpTo(DegreeTexts, MaxDegrees)

RequiredSkillTexts == {"Python", " JS ", "ml", " ", "Kubernetes"}
CandidateSkillTexts == {"python3", "javascript", "ai", "k8s", "py"}
RequiredSkillLists == SeqsUpTo(RequiredSkillTexts, MaxRequired)
CandidateSkillLists == SeqsUpTo(CandidateSkillTexts, MaxSkills)

JobWords == {"SQL", "Python;", "with", "data2"}
CandidateWords == {"python", "sql", "PYTHON,", "data"}
JobDescriptions == {Join(w) : w \in SeqsUpTo(JobWords, MaxWords)}
CandidateTexts == {Join(w) : w \in SeqsUpTo(CandidateWords, MaxWords)}

DynamicKeywordEntries ==
    [keyword : {"java", "sql", "ana"}, score : {Rat(1, 1), Rat(12, 5)},
     frequency : {1, 2}, type : {"single"}]
DynamicKeywordLists == SeqsUpTo(DynamicKeywordEntries, MaxDynamic)
DynamicCandidateTexts == {"", "Java and JavaScript", "banana sql", "SQL"}

ScoreYears == {0, 2, MaxYears}

Jobs ==
    [required_skills : {<<>>, <<"Python", "AWS">>, <<"ml">>},
     experience_years : ScoreYears,
     education_level : {"", "Bachelor", "GED"},
     description : {"", "python docker docker"},
     dynamic_keywords :
         {<<>>,
          << [keyword |-> "docker", score |-> Rat(24, 5), frequency |-> 2, type |-> "single"],
             [keyword |-> "python", score |-> Rat(2, 1), frequency |-> 1, type |-> "single"] >>}]

Profiles ==
    [skills : [all_skills : {<<>>, <<"python", "machine learning">>, <<"ai">>}],
     experience : [estimated_years : ScoreYears],
     education : [degrees : {<<>>, <<"bachelor">>, <<"diploma">>}],
     raw_text : {"", "Python developer, Docker", "docker docker python"}]

\* the job and the candidates of the scenario of the testable properties
ScenarioJobs ==
    {j \in [required_skills : {<<"Python", "AWS">>},
            experience_years : {3},
            education_level : {"bachelor"},
            description : {"", "python docker docker"},
            dynamic_keywords : {d : d \in {j.dynamic_keywords : j \in Jobs}}] : TRUE}

ScenarioProfiles ==
    [skills : [all_skills : {<<"python", "machine learning">>,
                             <<"machine learning", "python">>, <<>>}],
     experience : [estimated_years : {5}],
     education : [degrees : {<<"bachelor">>}],
     raw_text : {"", "Python developer, Docker"}]

\* a job and candidates whose skills and experience scores fall on and
\* between the thresholds of the explanation: 2, 3 and 4 of 5 skills, and
\* 4, 5, 7 and 9 of 10 years
ThresholdJobs ==
    [required_skills : {<<"Python", "AWS", "SQL", "Docker", "Rust">>},
     experience_years : {10},
     education_level : {"Bachelor"},
     description : {""},
     dynamic_keywords : {<<>>}]

ThresholdProfiles ==
    [skills : [all_skills : {<<"python", "aws">>, <<"python", "aws", "sql">>,
                             <<"python", "aws", "sql", "docker">>}],
     experience : [estimated_years : {4, 5, 7, 9}],
     education : [degrees : {<<"bachelor">>}],
     raw_text : {""}]

PoolJobs ==
    {j \in Jobs : /\ j.required_skills = <<"Python", "AWS">>
                  /\ j.experience_years = 2
                  /\ j.education_level = "Bachelor"
                  /\ j.description = "python docker docker"}

Candidate(candidate_id, skills, estimated_years, degrees, raw_text) ==
    [candidate_id |-> candidate_id,
     parsed_data |-> [skills |-> [all_skills |-> skills],
                      experience |-> [estimated_years |-> estimated_years],
                      education |-> [degrees |-> degrees],
                      raw_text |-> raw_text]]

\* cand_a and cand_b have the same profile, cand_c another profile with the
\* same scores, cand_d a better one and cand_e a worse one
PoolCandidates ==
    {Candidate("cand_a", <<"python">>, 2, <<"bachelor">>, "Python developer, Docker"),
     Candidate("cand_b", <<"python">>, 2, <<"bachelor">>, "Python developer, Docker"),
     Candidate("cand_c", <<"aws">>, 4, <<"master">>, "docker PYTHON"),
     Candidate("cand_d", <<"python", "aws">>, 3, <<"bachelor">>, "docker docker python"),
     Candidate("cand_e", <<"java">>, 0, <<>>, "Java developer")}

Pools == SeqsUpTo(PoolCandidates, MaxPool)

\* parsed profiles on both sides of every threshold of generate_suggestions;
\* total_words is 0 for a resume without any keyword
SuggestionProfiles ==
    [skills : [skill_count : {4, 5, 9, 10}],
     experience : [estimated_years : {1, 2}, title_count : {1, 2}],
     education : [degree_count : {0, 1}],
     summary_stats : [word_count : {199, 200, 800, 801}],
     contact_info : [email : {None, "ada@example.com"},
                     phone : {"", "415-555-0100"},
                     linkedin : {None, "linkedin.com/in/ada"}],
     keywords : {[unique_words |-> k[1], total_words |-> k[2]] :
                    k \in {<<0, 0>>, <<2, 10>>, <<3, 10>>, <<7, 10>>}}]

\* resume texts: up to MaxTokens tokens separated by single spaces
Texts(tokens) == {Join(words) : words \in SeqsUpTo(tokens, MaxTokens)}

ExperienceTokens == {"2018", "2022", "1999-2020", "Senior", "senior", "WebDeveloper,"}

EducationTokens == {"Bachelor", "bachelor", "B.S.", "MBA,", "Ph.D", "College"}

SkillTokens == {"Python", "JavaScript", "AWS,"}

ContactTokens ==
    {"Call me at", "415-555-0100", "+1", "a.b@x.co.uk,", "LinkedIn.com/in/ada-l", "Ada\nCV"}

FilePaths ==
    {"cv.pdf", "CV.PDF", "old.doc", "cv.docx", "notes.txt", "A.Txt", "cv.v2.txt",
     "resume", "photo.png", "cv.pdf.bak", "txt"}

\* what the environment answers to each way of reading the file
Files ==
    [utf8 : {[ok |-> TRUE, value |-> "Ada Lovelace"],
             [ok |-> FALSE, value |-> "'utf-8' codec can't decode byte 0xe9"]},
     latin1 : {[ok |-> TRUE, value |-> "Ada Lovelace (latin-1)"],
               [ok |-> FALSE, value |-> "No such file or directory"]},
     pdf : {[ok |-> TRUE, pages |-> <<"page one", "", "page three">>, error |-> ""],
            [ok |-> FALSE, pages |-> <<>>, error |-> "EOF marker not found"]},
     docx : {[ok |-> TRUE, paragraphs |-> <<"Ada", "Engineer">>, error |-> ""],
             [ok |-> FALSE, paragraphs |-> <<>>, error |-> "Package not found"]}]

\* a job description of 29 distinct keywords, one of them twice, and the
\* words that follow it
LongDescription ==
    "The stack: AWS Kubernetes Git API CSS XML SDK IDE GCP Vue PHP npm JVM ORM TDD BDD CLI GUI ETL ELT IoT NLP OCR RPC TCP UDP SSH SSL and Git"

JobKeywordTokens == {"Python", "SQL", "ssl", "the", "Developer;"}

KeywordDescriptions ==
    {Join(words) : words \in SeqsUpTo(JobKeywordTokens, MaxWords)}
        \cup {LongDescription \o " " \o Join(words) :
                 words \in SeqsUpTo(JobKeywordTokens, MaxWords)}

ResumeWordTokens == {"Python", "python,", "with", "SQL", "data-driven"}

-----------------------------------------------------------------------------
(* The state machine: one action per method called *)

\* no call is in progress
Init ==
    /\ op = "idle"
    /\ args = <<>>
    /\ ret = <<>>

CallExperienceMatch ==
    /\ op = "idle"
    /\ \E required_years \in YearValues, candidate_years \in YearValues :
           /\ op' = "_calculate_experience_match"
           /\ args' = [required_years |-> required_years, candidate_years |-> candidate_years]
           /\ ret' = calculate_experience_match(required_years, candidate_years)

CallEducationMatch ==
    /\ op = "idle"
    /\ \E required_education \in RequiredEducationTexts, candidate_degrees \in DegreeLists :
           /\ op' = "_calculate_education_match"
           /\ args' = [required_education |-> required_education,
                       candidate_degrees |-> candidate_degrees]
           /\ ret' = calculate_education_match(required_education, candidate_degrees)

CallSkillsMatch ==
    /\ op = "idle"
    /\ \E required_skills \in RequiredSkillLists, candidate_skills \in CandidateSkillLists :
           /\ op' = "_calculate_skills_match_enhanced"
           /\ args' = [required_skills |-> required_skills, candidate_skills |-> candidate_skills]
           /\ ret' = calculate_skills_match_enhanced(required_skills, candidate_skills)

CallKeywordMatch ==
    /\ op = "idle"
    /\ \E job_description \in JobDescriptions, candidate_text \in CandidateTexts :
           /\ op' = "_calculate_keyword_match_enhanced"
           /\ args' = [job_description |-> job_description, candidate_text |-> candidate_text]
           /\ ret' = calculate_keyword_match_enhanced(job_description, candidate_text)

CallDynamicKeywordMatch ==
    /\ op = "idle"
    /\ \E dynamic_keywords \in DynamicKeywordLists, candidate_text \in DynamicCandidateTexts :
           /\ op' = "_calculate_dynamic_keyword_match"
           /\ args' = [dynamic_keywords |-> dynamic_keywords, candidate_text |-> candidate_text]
           /\ ret' = calculate_dynamic_keyword_match(dynamic_keywords, candidate_text)

CallEnhancedMatchScore ==
    /\ op = "idle"
    /\ \E job_data \in Jobs \cup ScenarioJobs \cup ThresholdJobs,
          candidate_data \in Profiles \cup ScenarioProfiles \cup ThresholdProfiles :
           /\ op' = "_calculate_enhanced_match_score"
           /\ args' = [job_data |-> job_data, candidate_data |-> candidate_data]
           /\ ret' = calculate_enhanced_match_score(job_data, candidate_data)

CallMatchCandidates ==
    /\ op = "idle"
    /\ \E job_data \in PoolJobs, candidates \in Pools :
           /\ op' = "match_candidates"
           /\ args' = [job_data |-> job_data, candidates |-> candidates]
           /\ ret' = match_candidates(job_data, candidates)

\* the caller has taken the returned value; the engine keeps nothing of the call
CallGenerateSuggestions ==
    /\ op = "idle"
    /\ \E candidate_data \in SuggestionProfiles :
           /\ op' = "generate_suggestions"
           /\ args' = [candidate_data |-> candidate_data]
           /\ ret' = generate_suggestions(candidate_data)

CallExtractExperience ==
    /\ op = "idle"
    /\ \E text \in Texts(ExperienceTokens) :
           /\ op' = "_extract_experience"
           /\ args' = [text |-> text]
           /\ ret' \in extract_experience(text)

CallExtractEducation ==
    /\ op = "idle"
    /\ \E text \in Texts(EducationTokens) :
           /\ op' = "_extract_education"
           /\ args' = [text |-> text]
           /\ ret' \in extract_education(text)

CallExtractSkills ==
    /\ op = "idle"
    /\ \E text \in Texts(SkillTokens) :
           /\ op' = "_extract_skills"
           /\ args' = [text |-> text]
           /\ ret' \in extract_skills(text)

CallExtractContactInfo ==
    /\ op = "idle"
    /\ \E text \in Texts(ContactTokens) :
           /\ op' = "_extract_contact_info"
           /\ args' = [text |-> text]
           /\ ret' = extract_contact_info(text)

CallExtractTextFromFile ==
    /\ op = "idle"
    /\ \E filepath \in FilePaths, PDF_AVAILABLE \in BOOLEAN, DOCX_AVAILABLE \in BOOLEAN,
          file \in Files :
           /\ op' = "extract_text_from_file"
           /\ args' = [filepath |-> filepath, PDF_AVAILABLE |-> PDF_AVAILABLE,
                       DOCX_AVAILABLE |-> DOCX_AVAILABLE, file |-> file]
           /\ ret' = extract_text_from_file(filepath, PDF_AVAILABLE, DOCX_AVAILABLE, file)

CallExtractJobKeywords ==
    /\ op = "idle"
    /\ \E job_description \in KeywordDescriptions :
           /\ op' = "extract_job_keywords"
           /\ args' = [job_description |-> job_description]
           /\ ret' = extract_job_keywords(job_description)

CallExtractKeywordsBasic ==
    /\ op = "idle"
    /\ \E text \in Texts(ResumeWordTokens) :
           /\ op' = "_extract_keywords_basic"
           /\ args' = [text |-> text]
           /\ ret' = extract_keywords_basic(text)

Return ==
    /\ op # "idle"
    /\ op' = "idle"
    /\ args' = <<>>
    /\ ret' = <<>>

Next ==
    \/ CallExperienceMatch
    \/ CallEducationMatch
    \/ CallSkillsMatch
    \/ CallKeywordMatch
    \/ CallDynamicKeywordMatch
    \/ CallEnhancedMatchScore
    \/ CallMatchCandidates
    \/ CallGenerateSuggestions
    \/ CallExtractExperience
    \/ CallExtractEducation
    \/ CallExtractSkills
    \/ CallExtractContactInfo
    \/ CallExtractTextFromFile
    \/ CallExtractJobKeywords
    \/ CallExtractKeywordsBasic
    \/ Return

Spec == Init /\ [][Next]_vars

-----------------------------------------------------------------------------
(* Properties of the ranking and of the total score *)

\* C1: match_candidates returns one result per input candidate, each with
\* that candidate's score, ordered non-increasing by match_score, and two
\* results with equal match_score keep the order their candidates had in the
\* input: some permutation p of the input positions gives the output.
C1_RankingStable ==
    op = "match_candidates" =>
        LET n == Len(args.candidates)
        IN  /\ Len(ret) = n
            /\ \E p \in Permutations(1..n) :
                   /\ \A i \in 1..n :
                          /\ ret[i].candidate = args.candidates[p[i]]
                          /\ ret[i].match_score =
                                 calculate_enhanced_match_score(
                                     args.job_data, ret[i].candidate.parsed_data).total_score
                   /\ \A i, j \in 1..n :
                          i < j => /\ ret[i].match_score >= ret[j].match_score
                                   /\ ret[i].match_score = ret[j].match_score => p[i] < p[j]

\* a pool of three whose best candidate was not first in the input and in
\* which two different candidates tie
C1_Witness ==
    /\ op = "match_candidates"
    /\ Len(ret) = 3
    /\ ret[1].candidate # args.candidates[1]
    /\ \E i \in 1..2 : /\ ret[i].match_score = ret[i + 1].match_score
                       /\ ret[i].candidate # ret[i + 1].candidate
    /\ ret[1].match_score > ret[3].match_score

InPct(x) == x >= 0 /\ x <= 10000

\* C2: for a well-formed job and a well-formed profile, total_score and each
\* of the five breakdown values lie in [0,100] (0..10000 hundredths).
C2_ScoresInRange ==
    op = "_calculate_enhanced_match_score" =>
        /\ InPct(ret.total_score)
        /\ InPct(ret.breakdown.skills)
        /\ InPct(ret.breakdown.experience)
        /\ InPct(ret.breakdown.education)
        /\ InPct(ret.breakdown.keywords)
        /\ InPct(ret.breakdown.dynamic_keywords)

\* the upper end is reached by a job that has required skills, a
\* description and dynamic keywords, with an overqualified candidate elsewhere
C2_Witness ==
    /\ op = "_calculate_enhanced_match_score"
    /\ ret.total_score = 10000
    /\ args.job_data.required_skills # <<>>
    /\ args.job_data.experience_years > 0
    /\ args.job_data.description # ""
    /\ args.job_data.dynamic_keywords # <<>>

\* the five sub-scores of a call of _calculate_enhanced_match_score
SubScores(job_data, candidate_data) ==
    [skills |-> calculate_skills_match_enhanced(
                    job_data.required_skills, candidate_data.skills.all_skills).score,
     experience |-> calculate_experience_match(
                    job_data.experience_years, candidate_data.experience.estimated_years).score,
     education |-> calculate_education_match(
                    job_data.education_level, candidate_data.education.degrees).score,
     keywords |-> calculate_keyword_match_enhanced(
                    job_data.description, candidate_data.raw_text).score,
     dynamic |-> calculate_dynamic_keyword_match(
                    job_data.dynamic_keywords, candidate_data.raw_text).score]

\* (ws*skills + we*experience + wd*education + wk*keywords + wy*dynamic) / 100
WeightedSum(sc, ws, we, wd, wk, wy) ==
    RAdd(RAdd(RAdd(RAdd(RMul(sc.skills, Rat(ws, 100)),
                        RMul(sc.experience, Rat(we, 100))),
                   RMul(sc.education, Rat(wd, 100))),
              RMul(sc.keywords, Rat(wk, 100))),
         RMul(sc.dynamic, Rat(wy, 100)))

\* C3 as stated: without dynamic keywords the total is 0.40*skills +
\* 0.25*experience + 0.15*education + 0.20*keywords, with them it is
\* 0.35*skills + 0.20*experience + 0.15*education + 0.20*keywords + 0.10*dynamic.
C3_WeightsByMode ==
    op = "_calculate_enhanced_match_score" =>
        LET sc == SubScores(args.job_data, args.candidate_data)
        IN  IF args.job_data.dynamic_keywords = <<>>
            THEN ret.total_score = RoundPct(WeightedSum(sc, 40, 25, 15, 20, 0))
            ELSE ret.total_score = RoundPct(WeightedSum(sc, 35, 20, 15, 20, 10))

\* C3 amended: the total is 0.35*skills + 0.20*experience + 0.15*education +
\* 0.20*keywords + 0.10*dynamic for every job; the five weights sum to 1.0;
\* without dynamic keywords the dynamic score is 1.0, so the total is
\* 0.35*skills + 0.20*experience + 0.15*education + 0.20*keywords + 0.10.
C3_WeightsFixed ==
    op = "_calculate_enhanced_match_score" =>
        LET sc == SubScores(args.job_data, args.candidate_data)
            four == RAdd(RAdd(RAdd(RMul(sc.skills, Rat(35, 100)),
                                   RMul(sc.experience, Rat(20, 100))),
                              RMul(sc.education, Rat(15, 100))),
                         RMul(sc.keywords, Rat(20, 100)))
        IN  /\ ret.total_score = RoundPct(WeightedSum(sc, 35, 20, 15, 20, 10))
            /\ REq(RAdd(RAdd(RAdd(RAdd(weights.skills_match, weights.experience_match),
                                  weights.education_match),
                             weights.keyword_match),
                        weights.dynamic_keyword_match),
                   RInt(1))
            /\ args.job_data.dynamic_keywords = <<>> =>
                   /\ REq(sc.dynamic, RInt(1))
                   /\ ret.total_score = RoundPct(RAdd(four, Rat(10, 100)))

\* a job without dynamic keywords and a candidate matching none of its skills
C3_Witness ==
    /\ op = "_calculate_enhanced_match_score"
    /\ args.job_data.dynamic_keywords = <<>>
    /\ args.job_data.required_skills # <<>>
    /\ ret.breakdown.skills = 0
    /\ ret.breakdown.dynamic_keywords = 10000

-----------------------------------------------------------------------------
(* Properties of the education and experience scores *)

NonBlank(text) == Len(strip(text)) > 0

\* the hierarchy ordinals of the degrees that are recognized
RecognizedLevels(candidate_degrees) ==
    {get_education_level(candidate_degrees[i]) : i \in 1..Len(candidate_degrees)} \ {0}

\* the largest recognized ordinal, 0 if none is recognized
BestLevel(candidate_degrees) ==
    IF RecognizedLevels(candidate_degrees) = {} THEN 0
    ELSE CHOOSE m \in RecognizedLevels(candidate_degrees) :
             \A l \in RecognizedLevels(candidate_degrees) : l <= m

\* C4 as stated: the education score is exactly 0.3 whenever a non-blank
\* required level is given and no candidate degree is recognized, whatever
\* the required text, texts matching no hierarchy name included.
C4_NoDegreeAlwaysPartial ==
    (/\ op = "_calculate_education_match"
     /\ NonBlank(args.required_education)
     /\ RecognizedLevels(args.candidate_degrees) = {})
        => REq(ret.score, Rat(3, 10))

\* C4 amended: the education score is exactly 0.3 whenever the required
\* text maps to a hierarchy ordinal (level >= 1) and no candidate degree is
\* recognized; a non-blank required text that matches no hierarchy name
\* gives 1.0.
C4_NoDegreePartialIfRecognized ==
    (/\ op = "_calculate_education_match"
     /\ NonBlank(args.required_education))
        => /\ (/\ get_education_level(args.required_education) >= 1
               /\ RecognizedLevels(args.candidate_degrees) = {})
                  => REq(ret.score, Rat(3, 10))
           /\ get_education_level(args.required_education) = 0
                  => REq(ret.score, RInt(1))

\* a candidate whose only degree string is not in the hierarchy
C4_Witness ==
    /\ op = "_calculate_education_match"
    /\ args.required_education = "Bachelor"
    /\ args.candidate_degrees = <<"b.s.">>
    /\ REq(ret.score, Rat(3, 10))

\* C5: for a non-blank required level the education score is 1.0 when the
\* candidate level (the largest recognized ordinal, 0 if none) is at least
\* the required level, min(1.0, candidate/required) when it is lower and
\* positive; and the education score is never 0.
C5_EducationScore ==
    op = "_calculate_education_match" =>
        /\ RLt(RInt(0), ret.score)
        /\ NonBlank(args.required_education) =>
               LET required == get_education_level(args.required_education)
                   candidate == BestLevel(args.candidate_degrees)
               IN  /\ candidate >= required => REq(ret.score, RInt(1))
                   /\ (candidate < required /\ candidate > 0) =>
                          REq(ret.score, RMin(RInt(1), Rat(candidate, required)))

\* partial credit, the best of two degrees counting: diploma (2) and
\* bachelor (4) against a required level of 6
C5_Witness ==
    /\ op = "_calculate_education_match"
    /\ args.required_education = "MBA"
    /\ args.candidate_degrees = <<"bachelor", "diploma">>
    /\ REq(ret.score, Rat(4, 6))

\* C6: with both years >= 0 the experience score is 1.0 when required = 0;
\* for required > 0 it is 1.0 when required <= candidate <= 2*required, 0.9
\* when candidate > 2*required, max(0.1, candidate/required) when
\* candidate < required.
C6_ExperienceScore ==
    op = "_calculate_experience_match" =>
        LET required == args.required_years
            candidate == args.candidate_years
        IN  /\ required = 0 => REq(ret.score, RInt(1))
            /\ (required > 0 /\ required <= candidate /\ candidate <= 2 * required)
                   => REq(ret.score, RInt(1))
            /\ (required > 0 /\ candidate > 2 * required) => REq(ret.score, Rat(9, 10))
            /\ (required > 0 /\ candidate < required) =>
                   REq(ret.score, IF 10 * candidate < required THEN Rat(1, 10)
                                  ELSE Rat(candidate, required))

\* just over the 2x boundary
C6_Witness ==
    /\ op = "_calculate_experience_match"
    /\ args.required_years = 3
    /\ args.candidate_years = 2 * args.required_years + 1
    /\ REq(ret.score, Rat(9, 10))

-----------------------------------------------------------------------------
(* Properties of the skills score *)

\* C7: the skills score is 1.0 whenever the required-skills list is empty,
\* for every candidate skill set.
C7_EmptyRequiredSkills ==
    (op = "_calculate_skills_match_enhanced" /\ args.required_skills = <<>>)
        => REq(ret.score, RInt(1))

\* no required skill and no candidate skill
C7_Witness ==
    /\ op = "_calculate_skills_match_enhanced"
    /\ args.required_skills = <<>>
    /\ args.candidate_skills = <<>>
    /\ REq(ret.score, RInt(1))

\* a synonym group: its main name together with its listed synonyms
GroupMembers(g) ==
    {skill_synonyms[g][1]} \cup
        {skill_synonyms[g][2][k] : k \in 1..Len(skill_synonyms[g][2])}

Normalized(skill) == strip(lower(skill))

\* some candidate skill equals r, contains r or is contained in r
TextMatch(r, candidate_skills) ==
    \E j \in 1..Len(candidate_skills) :
        LET c == Normalized(candidate_skills[j])
        IN  r = c \/ IsSubstring(r, c) \/ IsSubstring(c, r)

\* r and some candidate skill are both members of one synonym group
SameGroup(r, candidate_skills) ==
    \E j \in 1..Len(candidate_skills), g \in 1..Len(skill_synonyms) :
        r \in GroupMembers(g) /\ Normalized(candidate_skills[j]) \in GroupMembers(g)

\* one of r and some candidate skill is the main name of a group and the
\* other is one of its listed synonyms
MainAndSynonym(r, candidate_skills) ==
    \E j \in 1..Len(candidate_skills), g \in 1..Len(skill_synonyms) :
        LET c == Normalized(candidate_skills[j])
            main == skill_synonyms[g][1]
        IN  \/ r = main /\ c \in GroupMembers(g) \ {main}
            \/ c = main /\ r \in GroupMembers(g) \ {main}

\* C8 as stated: for a required list with a non-blank entry the score is
\* (required skills matched) / (required skills), counting the non-blank
\* entries, a skill being matched by equality, by containment either way, or
\* by membership of one synonym group (main name or synonym, either side).
C8_SkillsRatioAnyGroupMember ==
    (/\ op = "_calculate_skills_match_enhanced"
     /\ \E i \in 1..Len(args.required_skills) : NonBlank(args.required_skills[i])) =>
        LET required == args.required_skills
            nonblank == {i \in 1..Len(required) : NonBlank(required[i])}
            matched == {i \in nonblank :
                           \/ TextMatch(Normalized(required[i]), args.candidate_skills)
                           \/ SameGroup(Normalized(required[i]), args.candidate_skills)}
        IN  REq(ret.score, Rat(Cardinality(matched), Cardinality(nonblank)))

\* C8 amended: for a required list with a non-blank entry the score is
\* (required skills matched) / (required skills), counting the non-blank
\* entries, a skill being matched by equality, by containment either way, or
\* when one of the two is the main name of a synonym group and the other is
\* one of its listed synonyms; two listed synonyms of one group do not match.
C8_SkillsRatioMainSynonym ==
    (/\ op = "_calculate_skills_match_enhanced"
     /\ \E i \in 1..Len(args.required_skills) : NonBlank(args.required_skills[i])) =>
        LET required == args.required_skills
            nonblank == {i \in 1..Len(required) : NonBlank(required[i])}
            matched == {i \in nonblank :
                           \/ TextMatch(Normalized(required[i]), args.candidate_skills)
                           \/ MainAndSynonym(Normalized(required[i]), args.candidate_skills)}
        IN  /\ REq(ret.score, Rat(Cardinality(matched), Cardinality(nonblank)))
            /\ ret.matched_count = Cardinality(matched)
            /\ ret.total_required = Cardinality(nonblank)

\* "js" is matched through its main name, "ml" is not matched by the other
\* synonym "ai"
C8_Witness ==
    /\ op = "_calculate_skills_match_enhanced"
    /\ args.required_skills = <<" JS ", "ml">>
    /\ args.candidate_skills = <<"javascript", "ai">>
    /\ REq(ret.score, Rat(1, 2))

-----------------------------------------------------------------------------
(* Properties of the keyword scores *)

\* the sum of f[i] over i in 1..n, for integers
RECURSIVE SumTo(_, _)
SumTo(f, n) == IF n = 0 THEN 0 ELSE f[n] + SumTo(f, n - 1)

\* the sum of f[i] over i in 1..n, for rationals
RECURSIVE RSumTo(_, _)
RSumTo(f, n) == IF n = 0 THEN RInt(0) ELSE RAdd(f[n], RSumTo(f, n - 1))

\* the lowercased alphabetic tokens of length >= 3 that are not stop words
KeywordsFrom3(text) ==
    SelectSeq(FindAlphaWords(lower(text)), LAMBDA w : w \notin meaningful_stop_words)

\* C9: the keyword score is 1.0 for an empty job description and otherwise
\* min(1, sum of min(f_job(k), f_cand(k)) / sum of f_job(k)) over the job
\* keywords k, the keywords being the tokens of length >= 3 that are not
\* stop words.
C9_KeywordScore ==
    op = "_calculate_keyword_match_enhanced" =>
        LET job == KeywordsFrom3(args.job_description)
            cand == KeywordsFrom3(args.candidate_text)
            keys == CounterKeys(job, 1, <<>>)
            hits == SumTo([i \in 1..Len(keys) |->
                              Min(Freq(job, keys[i]), Freq(cand, keys[i]))], Len(keys))
        IN  /\ args.job_description = "" => REq(ret.score, RInt(1))
            /\ Len(job) > 0 => REq(ret.score, RMin(RInt(1), Rat(hits, Len(job))))

\* C10: the dynamic keyword score is 1.0 for an empty list; otherwise it is
\* min(1, (sum over the entries whose keyword occurs in the lowercased text
\* of min(1, occurrences/frequency) * score) / (sum over all entries of
\* score)); matched_count is the number of entries whose keyword occurs.
C10_DynamicKeywordScore ==
    op = "_calculate_dynamic_keyword_match" =>
        LET entries == args.dynamic_keywords
            text == lower(args.candidate_text)
            n == Len(entries)
            occurs == {i \in 1..n : IsSubstring(entries[i].keyword, text)}
            contribution ==
                [i \in 1..n |->
                    IF i \in occurs
                    THEN RMul(RMin(RInt(1), Rat(count(text, entries[i].keyword),
                                                entries[i].frequency)),
                              entries[i].score)
                    ELSE RInt(0)]
            total == RSumTo(contribution, n)
            possible == RSumTo([i \in 1..n |-> entries[i].score], n)
        IN  IF n = 0 THEN REq(ret.score, RInt(1))
            ELSE /\ REq(ret.score, RMin(RInt(1), RDiv(total, possible)))
                 /\ ret.matched_count = Cardinality(occurs)

\* one entry matched with fewer occurrences than its frequency, one entry
\* not matched
C10_Witness ==
    /\ op = "_calculate_dynamic_keyword_match"
    /\ args.candidate_text = "banana sql"
    /\ Len(args.dynamic_keywords) = 2
    /\ args.dynamic_keywords[1].keyword = "ana"
    /\ args.dynamic_keywords[1].frequency = 2
    /\ args.dynamic_keywords[2].keyword = "java"
    /\ ret.matched_count = 1
    /\ RLt(RInt(0), ret.score) /\ RLt(ret.score, Rat(1, 2))

-----------------------------------------------------------------------------
(* The scenario of the testable properties *)

\* C11: for the job {required skills Python and AWS, 3 years, bachelor} and
\* a candidate with skills {python, machine learning}, 5 years, degrees
\* [bachelor], the skills score is 0.5, the experience score 1.0, the
\* education score 1.0, and the total is strictly greater than that of the
\* same candidate with an empty skill set, whose skills score is 0.
C11_Scenario ==
    (/\ op = "_calculate_enhanced_match_score"
     /\ args.job_data.required_skills = <<"Python", "AWS">>
     /\ args.job_data.experience_years = 3
     /\ args.job_data.education_level = "bachelor"
     /\ args.candidate_data.skills.all_skills
            \in {<<"python", "machine learning">>, <<"machine learning", "python">>}
     /\ args.candidate_data.experience.estimated_years = 5
     /\ args.candidate_data.education.degrees = <<"bachelor">>)
        => LET second == [args.candidate_data EXCEPT !.skills.all_skills = <<>>]
               other == calculate_enhanced_match_score(args.job_data, second)
           IN  /\ ret.breakdown.skills = 5000
               /\ ret.breakdown.experience = 10000
               /\ ret.breakdown.education = 10000
               /\ other.breakdown.skills = 0
               /\ ret.total_score > other.total_score

\* the scenario with a job description and dynamic keywords
C11_Witness ==
    /\ op = "_calculate_enhanced_match_score"
    /\ args.job_data.required_skills = <<"Python", "AWS">>
    /\ args.job_data.experience_years = 3
    /\ args.job_data.education_level = "bachelor"
    /\ args.job_data.dynamic_keywords # <<>>
    /\ args.job_data.description # ""
    /\ args.candidate_data.skills.all_skills = <<"python", "machine learning">>
    /\ args.candidate_data.experience.estimated_years = 5
    /\ args.candidate_data.education.degrees = <<"bachelor">>
    /\ ret.breakdown.skills = 5000

-----------------------------------------------------------------------------
(* Properties of generate_suggestions *)

\* unique_words / total_words < 0.3, for a profile where the quotient exists
LowDiversity(keywords) ==
    /\ keywords.total_words # 0
    /\ 10 * keywords.unique_words < 3 * keywords.total_words

\* C12: generate_suggestions never raises for a well-formed profile, a
\* profile whose keywords.total_words is 0 included, and the suggestion of
\* category Keywords and priority Medium is in the result only when
\* unique_words / total_words is below 0.3.
C12_NeverRaises ==
    op = "generate_suggestions"
        => /\ ret.raised = None
           /\ (\E i \in 1..Len(ret.suggestions) :
                   /\ ret.suggestions[i].category = "Keywords"
                   /\ ret.suggestions[i].priority = "Medium")
                  => LowDiversity(args.candidate_data.keywords)

\* the rules in their order: <<condition, category, priority>>
SuggestionRules(p) ==
    << <<p.skills.skill_count < 5, "Skills", "Critical">>,
       <<5 <= p.skills.skill_count /\ p.skills.skill_count <= 9, "Skills", "High">>,
       <<p.experience.estimated_years < 2, "Experience", "High">>,
       <<p.experience.title_count < 2, "Experience", "Medium">>,
       <<p.education.degree_count = 0, "Education", "Medium">>,
       <<p.summary_stats.word_count < 200, "Content", "Critical">>,
       <<p.summary_stats.word_count > 800, "Content", "Low">>,
       <<p.contact_info.email \in {None, ""}, "Contact Info", "Critical">>,
       <<p.contact_info.phone \in {None, ""}, "Contact Info", "High">>,
       <<p.contact_info.linkedin \in {None, ""}, "Contact Info", "High">>,
       <<LowDiversity(p.keywords), "Keywords", "Medium">> >>

Triggered(rule) == rule[1]

\* the categories and priorities of the triggered rules, in rule order
TriggeredRules(p) ==
    LET hit == SelectSeq(SuggestionRules(p), Triggered)
    IN  [i \in 1..Len(hit) |-> <<hit[i][2], hit[i][3]>>]

Headings(suggestions) ==
    [i \in 1..Len(suggestions) |-> <<suggestions[i].category, suggestions[i].priority>>]

\* C13: the output of generate_suggestions is exactly the subsequence of
\* the triggered rules, in the fixed rule order (Skills, Experience High,
\* Experience Medium, Education, Content, email, phone, LinkedIn,
\* Keywords), never re-sorted by priority.
C13_TriggeredRulesInOrder ==
    op = "generate_suggestions"
        => /\ ret.raised = None
           /\ Headings(ret.suggestions) = TriggeredRules(args.candidate_data)

\* the same, for the calls that return
C13_WhenItReturns ==
    (op = "generate_suggestions" /\ ret.raised = None)
        => Headings(ret.suggestions) = TriggeredRules(args.candidate_data)

OnlyEmailMissing(p) ==
    /\ p.skills.skill_count >= 10
    /\ p.experience.estimated_years >= 2
    /\ p.experience.title_count >= 2
    /\ p.education.degree_count >= 1
    /\ 200 <= p.summary_stats.word_count
    /\ p.summary_stats.word_count <= 800
    /\ p.contact_info.phone \notin {None, ""}
    /\ p.contact_info.linkedin \notin {None, ""}
    /\ p.keywords.total_words # 0
    /\ 10 * p.keywords.unique_words >= 3 * p.keywords.total_words
    /\ p.contact_info.email \in {None, ""}

\* C14: a profile in which only the missing-email condition holds gets
\* exactly one suggestion, of category Contact Info and priority Critical.
C14_OnlyEmailMissing ==
    (op = "generate_suggestions" /\ OnlyEmailMissing(args.candidate_data))
        => /\ ret.raised = None
           /\ Len(ret.suggestions) = 1
           /\ ret.suggestions[1].category = "Contact Info"
           /\ ret.suggestions[1].priority = "Critical"

C14_Witness ==
    /\ op = "generate_suggestions"
    /\ OnlyEmailMissing(args.candidate_data)
    /\ args.candidate_data.keywords.unique_words = 3
    /\ Len(ret.suggestions) = 1

-----------------------------------------------------------------------------
(* Properties of the resume parser *)

\* the four-digit years 19xx and 20xx of the text, left to right
RECURSIVE YearOccurrences(_, _)
YearOccurrences(text, i) ==
    IF i + 3 > Len(text) THEN <<>>
    ELSE IF SubSeq(text, i, i + 1) \in {"19", "20"} /\ isdigit(SubSeq(text, i + 2, i + 3))
         THEN <<int(SubSeq(text, i, i + 3))>> \o YearOccurrences(text, i + 4)
         ELSE YearOccurrences(text, i + 1)

\* C15: estimated_years is the largest four-digit year 19xx/20xx of the
\* text minus the smallest when the text has at least two year
\* occurrences, and 0 otherwise: 4 for the years 2018 and 2022, 0 for the
\* single year 2020.
C15_EstimatedYears ==
    op = "_extract_experience"
        => LET found == YearOccurrences(args.text, 1)
           IN  ret.estimated_years =
                   IF Len(found) > 1 THEN SeqMax(found) - SeqMin(found) ELSE 0

\* no entry of the list occurs twice
NoDuplicate(list) == \A i, j \in 1..Len(list) : i # j => list[i] # list[j]

\* C17: in the parsed profile skill_count, degree_count and title_count
\* are the numbers of distinct entries of all_skills, degrees and
\* potential_titles, and none of the three lists has a duplicate entry.
C17_CountsOfDistinctEntries ==
    /\ op = "_extract_skills"
           => /\ ret.skill_count = Cardinality(ToSet(ret.all_skills))
              /\ NoDuplicate(ret.all_skills)
    /\ op = "_extract_education"
           => /\ ret.degree_count = Cardinality(ToSet(ret.degrees))
              /\ NoDuplicate(ret.degrees)
    /\ op = "_extract_experience"
           => /\ ret.title_count = Cardinality(ToSet(ret.potential_titles))
              /\ NoDuplicate(ret.potential_titles)

\* a text that names a degree twice
C17_Witness ==
    /\ op = "_extract_education"
    /\ args.text = "Bachelor MBA, Bachelor"
    /\ ret.degrees = <<"MBA", "Bachelor">>
    /\ ret.degree_count = 2

\* two entries that differ only in letter case
SameButCase(list) ==
    \E i, j \in 1..Len(list) : list[i] # list[j] /\ lower(list[i]) = lower(list[j])

\* C18: degrees and potential_titles hold no two entries that differ only
\* in letter case: a text with both "Bachelor" and "bachelor" has
\* degree_count 1.
C18_CaseInsensitiveDedup ==
    /\ op = "_extract_education"
           => /\ ~SameButCase(ret.degrees)
              /\ (args.text = "Bachelor bachelor" => ret.degree_count = 1)
    /\ op = "_extract_experience" => ~SameButCase(ret.potential_titles)

\* C16: contact extraction keeps the digits of the first phone match:
\* for the text "Call me at 415-555-0100" the phone is "(415) 555-0100",
\* not an empty or absent value.
C16_PhoneKept ==
    (op = "_extract_contact_info" /\ args.text = "Call me at 415-555-0100")
        => ret.phone = "(415) 555-0100"

-----------------------------------------------------------------------------
(* Properties of extract_text_from_file *)

StartsWith(s, prefix) == Len(s) >= Len(prefix) /\ SubSeq(s, 1, Len(prefix)) = prefix

\* the kinds of error a result shows: none when text is returned
ErrorKinds(result) ==
    IF result.raised = None THEN {}
    ELSE {kind \in {"UnsupportedFormat", "BackendUnavailable", "ExtractionFailure"} :
            \/ /\ kind = "UnsupportedFormat"
               /\ StartsWith(result.raised, "Error extracting text: Unsupported file format: ")
            \/ /\ kind = "BackendUnavailable"
               /\ \E library \in {"PDF", "DOCX"} :
                      StartsWith(result.raised,
                                 "Error extracting text: " \o library \o " parsing not available.")
            \/ /\ kind = "ExtractionFailure"
               /\ \E format \in {"PDF", "DOCX", "TXT"} :
                      StartsWith(result.raised,
                                 "Error extracting text: " \o format \o " extraction error: ")}

\* the extension of a path, in lower case: what follows its last "."
Extension(path) ==
    LET dots == {i \in 1..Len(path) : Chr(path, i) = "."}
    IN  lower(SubSeq(path, (IF dots = {} THEN 0 ELSE SetMax(dots)) + 1, Len(path)))

\* C19: extract_text_from_file classifies its outcome by the extension,
\* compared case-insensitively, and the availability of the backends: an
\* extension outside {pdf, doc, docx, txt} ends in an UnsupportedFormat
\* error and no text; pdf, doc or docx with its backend unavailable ends in
\* a BackendUnavailable error, distinct from the two other kinds; txt does
\* not depend on the backends, reads with the primary encoding first and,
\* only if that fails, once with the fallback encoding before it fails with
\* ExtractionFailure.
C19_OutcomeByExtension ==
    op = "extract_text_from_file"
        => LET extension == Extension(args.filepath)
               file == args.file
           IN  /\ extension \notin {"pdf", "doc", "docx", "txt"}
                      => ErrorKinds(ret) = {"UnsupportedFormat"} /\ ret.text = None
               /\ (extension = "pdf" /\ ~args.PDF_AVAILABLE)
                      => ErrorKinds(ret) = {"BackendUnavailable"} /\ ret.text = None
               /\ (extension \in {"doc", "docx"} /\ ~args.DOCX_AVAILABLE)
                      => ErrorKinds(ret) = {"BackendUnavailable"} /\ ret.text = None
               /\ extension = "txt"
                      => /\ \A pdf_available, docx_available \in BOOLEAN :
                                ret = extract_text_from_file(args.filepath, pdf_available,
                                                             docx_available, file)
                         /\ file.utf8.ok
                                => /\ ret.reads = <<"utf-8">>
                                   /\ ret.raised = None
                                   /\ ret.text = file.utf8.value
                         /\ (~file.utf8.ok /\ file.latin1.ok)
                                => /\ ret.reads = <<"utf-8", "latin-1">>
                                   /\ ret.raised = None
                                   /\ ret.text = file.latin1.value
                         /\ (~file.utf8.ok /\ ~file.latin1.ok)
                                => /\ ret.reads = <<"utf-8", "latin-1">>
                                   /\ ErrorKinds(ret) = {"ExtractionFailure"}
                                   /\ ret.text = None

\* a text file in upper-case extension read with the fallback encoding,
\* both backends missing
C19_Witness ==
    /\ op = "extract_text_from_file"
    /\ args.filepath = "A.Txt"
    /\ ~args.PDF_AVAILABLE
    /\ ~args.DOCX_AVAILABLE
    /\ ~args.file.utf8.ok
    /\ ret.reads = <<"utf-8", "latin-1">>
    /\ ret.text = "Ada Lovelace (latin-1)"

-----------------------------------------------------------------------------
(* Properties of extract_job_keywords *)

\* the alphabetic tokens of three letters or more of the description, in
\* lower case, stop words left out
JobTokens(job_description) ==
    SelectSeq(FindAlphaWords(lower(job_description)), LAMBDA w : w \notin job_stop_words)

FirstOccurrence(tokens, w) == CHOOSE i \in 1..Len(tokens) : tokens[i] = w /\ \A j \in 1..(i - 1) : tokens[j] # w

\* C20: extract_job_keywords returns at most 30 entries, one for each
\* distinct non-stop-word alphabetic token of three letters or more among
\* the 30 most frequent, each of type "single" with the count of the token
\* as frequency, by non-increasing frequency and, for equal frequencies, in
\* the order of first occurrence, whatever the final scores; the list is
\* empty for an empty description.
C20_JobKeywords ==
    op = "extract_job_keywords"
        => LET tokens == JobTokens(args.job_description)
               distinct == ToSet(tokens)
               listed == {ret[k].keyword : k \in 1..Len(ret)}
           IN  /\ Len(ret) <= 30
               /\ Len(ret) = Min(30, Cardinality(distinct))
               /\ listed \subseteq distinct
               /\ Cardinality(listed) = Len(ret)
               /\ \A k \in 1..Len(ret) :
                      /\ ret[k].type = "single"
                      /\ ret[k].frequency = Freq(tokens, ret[k].keyword)
               /\ \A w \in distinct \ listed, k \in 1..Len(ret) :
                      \/ Freq(tokens, w) < ret[k].frequency
                      \/ /\ Freq(tokens, w) = ret[k].frequency
                         /\ FirstOccurrence(tokens, ret[k].keyword) < FirstOccurrence(tokens, w)
               /\ \A j, k \in 1..Len(ret) :
                      j < k => \/ ret[j].frequency > ret[k].frequency
                               \/ /\ ret[j].frequency = ret[k].frequency
                                  /\ FirstOccurrence(tokens, ret[j].keyword)
                                         < FirstOccurrence(tokens, ret[k].keyword)
               /\ args.job_description = "" => ret = <<>>

\* more than 30 distinct tokens, one of them twice, and a keyword listed
\* before one of a greater score
C20_Witness ==
    /\ op = "extract_job_keywords"
    /\ Cardinality(ToSet(JobTokens(args.job_description))) > 30
    /\ Len(ret) = 30
    /\ ret[1].frequency = 2
    /\ \E j, k \in 1..Len(ret) : j < k /\ RLt(ret[j].score, ret[k].score)

-----------------------------------------------------------------------------
(* Properties of the explanation of a match *)

ScoredSkills ==
    calculate_skills_match_enhanced(args.job_data.required_skills,
                                    args.candidate_data.skills.all_skills)

ExcellentSkillsLine ==
    "Excellent skills match (" \o ToString(ScoredSkills.matched_count) \o "/"
        \o ToString(ScoredSkills.total_required) \o " required skills)"

GoodSkillsLine ==
    "Good skills match (" \o ToString(ScoredSkills.matched_count) \o "/"
        \o ToString(ScoredSkills.total_required) \o " required skills)"

MissingSkillsLine ==
    "Missing key skills (" \o ToString(ScoredSkills.missing_count) \o " out of "
        \o ToString(ScoredSkills.total_required) \o " required)"

\* a line about the skills, whatever the counts it quotes
IsSkillsLine(line) ==
    \/ StartsWith(line, "Excellent skills match (")
    \/ StartsWith(line, "Good skills match (")
    \/ StartsWith(line, "Missing key skills (")

NoSkillsLine ==
    /\ \A k \in 1..Len(ret.strengths) : ~IsSkillsLine(ret.strengths[k])
    /\ \A k \in 1..Len(ret.gaps) : ~IsSkillsLine(ret.gaps[k])

\* C21 as stated: the excellent-match strength iff s > 0.8, the good-match
\* strength iff 0.6 <= s <= 0.8, the missing-skills gap iff s < 0.4, no
\* skills line when 0.4 <= s < 0.6, the lines quoting the matched (or
\* missing) count and the total required count.
C21_SkillsLinesFromSixTenths ==
    op = "_calculate_enhanced_match_score"
        => LET s == ScoredSkills.score
           IN  /\ InList(ExcellentSkillsLine, ret.strengths) <=> RLt(Rat(8, 10), s)
               /\ InList(GoodSkillsLine, ret.strengths)
                      <=> (RLe(Rat(6, 10), s) /\ RLe(s, Rat(8, 10)))
               /\ InList(MissingSkillsLine, ret.gaps) <=> RLt(s, Rat(4, 10))
               /\ (RLe(Rat(4, 10), s) /\ RLt(s, Rat(6, 10))) => NoSkillsLine

\* C21, amended: the excellent-match strength iff s > 0.8, the good-match
\* strength iff 0.6 < s <= 0.8, the missing-skills gap iff s < 0.4, no
\* skills line when 0.4 <= s <= 0.6, the lines quoting the matched (or
\* missing) count and the total required count.
C21_SkillsLines ==
    op = "_calculate_enhanced_match_score"
        => LET s == ScoredSkills.score
           IN  /\ InList(ExcellentSkillsLine, ret.strengths) <=> RLt(Rat(8, 10), s)
               /\ InList(GoodSkillsLine, ret.strengths)
                      <=> (RLt(Rat(6, 10), s) /\ RLe(s, Rat(8, 10)))
               /\ InList(MissingSkillsLine, ret.gaps) <=> RLt(s, Rat(4, 10))
               /\ (RLe(Rat(4, 10), s) /\ RLe(s, Rat(6, 10))) => NoSkillsLine

\* three of five required skills matched: a score of exactly 0.6 and no
\* skills line
C21_Witness ==
    /\ op = "_calculate_enhanced_match_score"
    /\ ScoredSkills.matched_count = 3
    /\ ScoredSkills.total_required = 5
    /\ NoSkillsLine

ScoredExperience ==
    calculate_experience_match(args.job_data.experience_years,
                               args.candidate_data.experience.estimated_years)

YearsShort ==
    args.job_data.experience_years - args.candidate_data.experience.estimated_years

IsExperienceGap(line) == StartsWith(line, "May need ")

\* C22: an experience gap line is added iff the experience score is below
\* 0.5 and required years - candidate years is positive, and it names that
\* difference; the "perfect" strength is added when the score is above
\* 0.9, the "good" strength when it is above 0.7 but not above 0.9; a
\* score in [0.5, 0.7] adds no experience line.
C22_ExperienceLines ==
    op = "_calculate_enhanced_match_score"
        => LET s == ScoredExperience.score
               gap_line == "May need " \o ToString(YearsShort) \o " more years of experience"
               some_gap == \E k \in 1..Len(ret.gaps) : IsExperienceGap(ret.gaps[k])
               perfect == InList("Perfect experience level match", ret.strengths)
               good == InList("Good experience level", ret.strengths)
           IN  /\ some_gap <=> (RLt(s, Rat(5, 10)) /\ YearsShort > 0)
               /\ some_gap => InList(gap_line, ret.gaps)
               /\ perfect <=> RLt(Rat(9, 10), s)
               /\ good <=> (RLt(Rat(7, 10), s) /\ RLe(s, Rat(9, 10)))
               /\ (RLe(Rat(5, 10), s) /\ RLe(s, Rat(7, 10)))
                      => ~some_gap /\ ~perfect /\ ~good

\* 4 of 10 years: a score of 0.4 and a gap line that names 6 years
C22_Witness ==
    /\ op = "_calculate_enhanced_match_score"
    /\ args.job_data.experience_years = 10
    /\ args.candidate_data.experience.estimated_years = 4
    /\ InList("May need 6 more years of experience", ret.gaps)

-----------------------------------------------------------------------------
(* Counts of the skills score *)

\* C23: _calculate_skills_match_enhanced returns matched_count +
\* missing_count = total_required, where total_required is the number of
\* non-blank required entries (each is counted once, as matched or as
\* missing), and a score in [0,1].
C23_SkillCountsAddUp ==
    op = "_calculate_skills_match_enhanced"
        => /\ ret.total_required
                  = Cardinality({i \in 1..Len(args.required_skills) :
                                    NonBlank(args.required_skills[i])})
           /\ ret.matched_count + ret.missing_count = ret.total_required
           /\ ret.matched_count >= 0
           /\ ret.missing_count >= 0
           /\ RLe(RInt(0), ret.score)
           /\ RLe(ret.score, RInt(1))

\* a blank entry between a matched and a missing skill
C23_Witness ==
    /\ op = "_calculate_skills_match_enhanced"
    /\ \E i \in 1..Len(args.required_skills) : ~NonBlank(args.required_skills[i])
    /\ ret.matched_count = 1
    /\ ret.missing_count = 0
    /\ ret.total_required = 1
    /\ Len(args.required_skills) = 2

-----------------------------------------------------------------------------
(* Scores of the job keywords *)

\* the score of a keyword of a given count, every keyword taken as a
\* technical term
BoostedScore(keyword, frequency) ==
    IF Len(keyword) > 6
    THEN RMul(RMul(RInt(2), Rat(12, 10)), RInt(frequency))
    ELSE RMul(RInt(2), RInt(frequency))

-----------------------------------------------------------------------------
(* One line at most for each explained dimension *)

\* the dimension a line of strengths or gaps speaks of: 1 skills,
\* 2 experience, 3 education, 4 dynamic keywords, 0 for any other line
Dimension(line) ==
    IF IsSkillsLine(line) THEN 1
    ELSE IF \/ line = "Perfect experience level match"
            \/ line = "Good experience level"
            \/ IsExperienceGap(line) THEN 2
    ELSE IF \/ line = "Strong educational background"
            \/ line = "Education level may not meet requirements" THEN 3
    ELSE IF \/ StartsWith(line, "Strong keyword alignment (")
            \/ line = "Limited alignment with job-specific requirements" THEN 4
    ELSE 0

\* the lines of a list speak of dimensions in increasing order
InDimensionOrder(lines) ==
    /\ \A k \in 1..Len(lines) : Dimension(lines[k]) \in 1..4
    /\ \A j, k \in 1..Len(lines) : j < k => Dimension(lines[j]) < Dimension(lines[k])

OneLinePerDimension(strengths, gaps) ==
    /\ Len(strengths) + Len(gaps) <= 4
    /\ InDimensionOrder(strengths)
    /\ InDimensionOrder(gaps)
    /\ \A j \in 1..Len(strengths), k \in 1..Len(gaps) :
           Dimension(strengths[j]) # Dimension(gaps[k])

\* C25: in every match result each of the four explained dimensions gives
\* at most one line to strengths and gaps together, so that
\* len(strengths) + len(gaps) <= 4 and no dimension gives both a strength
\* and a gap; strengths and gaps are each in the order skills, experience,
\* education, dynamic keywords.
C25_OneLinePerDimension ==
    /\ op = "_calculate_enhanced_match_score"
           => OneLinePerDimension(ret.strengths, ret.gaps)
    /\ op = "match_candidates"
           => \A i \in 1..Len(ret) : OneLinePerDimension(ret[i].strengths, ret[i].gaps)

\* four lines, two strengths and two gaps, a gap of a dimension that
\* comes before the dimension of a strength
C25_Witness ==
    /\ op = "_calculate_enhanced_match_score"
    /\ Len(ret.strengths) = 2
    /\ Len(ret.gaps) = 2
    /\ Dimension(ret.gaps[1]) < Dimension(ret.strengths[2])

=============================================================================
